---------------------------- MODULE Spec2Model ----------------------------
(***************************************************************************)
(* TrapMasterPro: the real-time processor, the preset engine and the       *)
(* engine that coordinates them.                                           *)
(*                                                                         *)
(* Samples, gains and envelopes are fixed-point numbers: the integer x     *)
(* stands for x / Scale.  Levels in dB are kept in hundredths of a dB      *)
(* (cdB).  Times are kept in tenths of a millisecond.                      *)
(***************************************************************************)
EXTENDS Integers, Sequences, FiniteSets, TLC

(***************************************************************************)
(* Fixed-point arithmetic                                                  *)
(***************************************************************************)
Scale == 100 * 100

Abs(x) == IF x < 0 THEN -x ELSE x

Min(a, b) == IF a < b THEN a ELSE b

Max(a, b) == IF a > b THEN a ELSE b

\* Division rounding toward zero (b > 0).
Div0(a, b) == IF a >= 0 THEN a \div b ELSE -((-a) \div b)

\* Product of two fixed-point numbers.
Mul(a, b) == Div0(a * b, Scale)

\* 10^(j/20) for j = 0..20, times Scale: one decade of amplitude in 1 dB steps.
DecadeTable ==
  << 10000, 11220, 12589, 14125, 15849, 17783, 19953, 22387, 25119, 28184,
     31623, 35481, 39811, 44668, 50119, 56234, 63096, 70795, 79433, 89125 >>

Pow10(n) == IF n = 0 THEN 1 ELSE IF n = 1 THEN 10 ELSE IF n = 2 THEN 100
            ELSE IF n = 3 THEN 1000 ELSE IF n = 4 THEN 10000 ELSE 100000

\* Whole dB to linear: 10^(k/20).
LinDb(k) ==
  LET dec == k \div 20
      j   == k % 20
  IN  IF dec >= 0 THEN DecadeTable[j + 1] * Pow10(dec)
      ELSE IF dec < -5 THEN 0
      ELSE DecadeTable[j + 1] \div Pow10(-dec)

MinDb == 0 - 80
MaxDb == 3 * 10

LinTab == [k \in MinDb .. (MaxDb + 1) |-> LinDb(k)]

\* Math.pow(10, c / 20) for c in cdB, linear between whole dB.
Lin(c) ==
  LET cc == Max(MinDb * 100, Min(MaxDb * 100, c))
      k  == cc \div 100
      f  == cc % 100
  IN  LinTab[k] + ((LinTab[k + 1] - LinTab[k]) * f) \div 100

\* The level of the 1e-10 that the code adds before taking the logarithm.
FloorDb == -200 * 100

\* 20 * Math.log10(x + 1e-10) in cdB, the inverse of Lin.
ToDb(x) ==
  IF x <= 0 THEN FloorDb
  ELSE IF x >= LinTab[MaxDb] THEN MaxDb * 100
  ELSE LET k == CHOOSE n \in MinDb .. (MaxDb - 1) :
                   LinTab[n] <= x /\ LinTab[n + 1] > x
       IN  k * 100 + ((x - LinTab[k]) * 100) \div (LinTab[k + 1] - LinTab[k])

\* Math.tanh at 0, 0.25, ..., 4.0, times Scale.
TanhTable ==
  << 0, 2449, 4621, 6351, 7616, 8483, 9051, 9414, 9640, 9780, 9866, 9919,
     9951, 9970, 9982, 9989, 9993 >>

\* Math.tanh(a), linear between the table's points, flat beyond 4.0.
Tanh(a) ==
  LET step == Scale \div 4
      i    == a \div step
      f    == a % step
  IN  IF a >= 4 * Scale THEN TanhTable[17]
      ELSE TanhTable[i + 1] + ((TanhTable[i + 2] - TanhTable[i + 1]) * f) \div step

SampleRate == 44100

\* Math.exp(-1 / (t * sampleRate)) for a time t in tenths of a millisecond:
\* 1 - x + x^2/2 with x = 1 / (t * sampleRate).
ExpCoeff(t) ==
  LET d == t * SampleRate
      x == (100000000 + d \div 2) \div d
  IN  Scale - x + (x * x) \div (2 * Scale)


(***************************************************************************)
(* DSP stages (dspModules.js).  A stage is a record of its constructor     *)
(* parameters and its mutable state; process returns the stage after the   *)
(* call and the sample it returns.                                         *)
(*   thr, gain, knee, makeup: cdB      ratio, drive, width: tenths         *)
(*   att, rel: tenths of a ms          cth, ceil: hundredths               *)
(***************************************************************************)

\* One-pole envelope follower shared by DynamicEQ and AdaptiveCompressor.
Envelope(env, target, att, rel) ==
  LET coeff == IF target > env THEN ExpCoeff(att) ELSE ExpCoeff(rel)
  IN  target + Mul(env - target, coeff)

\* new DynamicEQ(frequency, q, threshold, ratio, attack, release, gain)
DynamicEQ(frequency, q, threshold, ratio, attack, release, gain) ==
  [k |-> "DynamicEQ", frequency |-> frequency, q |-> q, thr |-> threshold,
   ratio |-> ratio, att |-> attack, rel |-> release, gain |-> gain,
   envelope |-> 0]

\* The gain reduction in cdB that DynamicEQ.process computes at a level.
DynamicEQ_gainReduction(st, dbLevel) ==
  IF dbLevel > st.thr
  THEN Min(Div0((dbLevel - st.thr) * 10, st.ratio), st.gain)
  ELSE 0

DynamicEQ_process(st, sample, inputLevel) ==
  LET env == Envelope(st.envelope, Abs(inputLevel), st.att, st.rel)
      gr  == DynamicEQ_gainReduction(st, ToDb(env))
  IN  [st |-> [st EXCEPT !.envelope = env], out |-> Mul(sample, Lin(-gr))]

\* new AdaptiveCompressor(threshold, ratio, attack, release, knee, makeupGain)
AdaptiveCompressor(threshold, ratio, attack, release, knee, makeupGain) ==
  [k |-> "AdaptiveCompressor", thr |-> threshold, ratio |-> ratio,
   att |-> attack, rel |-> release, knee |-> knee, makeup |-> makeupGain,
   envelope |-> 0]

\* analysisData.dynamicRange || 12: a missing or zero range reads as 12 dB.
DynamicRangeOr12(analysisData) ==
  IF analysisData.dynamicRange = 0 THEN 1200 ELSE analysisData.dynamicRange

AdaptiveCompressor_adaptThreshold(st, analysisData) ==
  LET dynamicRange == DynamicRangeOr12(analysisData)
      targetRange  == 800
  IN  IF dynamicRange > targetRange
      THEN [st EXCEPT !.thr = -1200 - Div0(dynamicRange - targetRange, 2)]
      ELSE st

\* The gain reduction in cdB that AdaptiveCompressor.process computes.
AdaptiveCompressor_gainReduction(st, dbLevel) ==
  IF dbLevel > st.thr - st.knee \div 2
  THEN IF dbLevel < st.thr + st.knee \div 2
       THEN LET excess == dbLevel - (st.thr - st.knee \div 2)
            IN  Div0(excess * excess * 10, st.knee * st.ratio)
       ELSE LET excess == dbLevel - st.thr
            IN  excess - Div0(excess * 10, st.ratio)
  ELSE 0

AdaptiveCompressor_process(st, sample) ==
  LET env == Envelope(st.envelope, Abs(sample), st.att, st.rel)
      gr  == AdaptiveCompressor_gainReduction(st, ToDb(env))
  IN  [st  |-> [st EXCEPT !.envelope = env],
       out |-> Mul(sample, Lin(-gr + st.makeup))]

\* new SoftClipper(drive, threshold)
SoftClipper(drive, threshold) ==
  [k |-> "SoftClipper", drive |-> drive, cth |-> threshold]

SoftClipper_process(st, sample) ==
  LET driven == Div0(sample * st.drive, 10)
      th     == st.cth * (Scale \div 100)
      room   == Scale - th
      excess == Abs(driven) - th
      sign   == IF driven > 0 THEN 1 ELSE -1
      arg    == IF excess >= 4 * room THEN 4 * Scale
                ELSE (excess * Scale) \div room
  IN  [st  |-> st,
       out |-> IF Abs(driven) > th
               THEN sign * (th + Mul(room, Tanh(arg)))
               ELSE driven]

\* new Limiter(ceiling, release)
Limiter(ceiling, release) ==
  [k |-> "Limiter", ceil |-> ceiling, rel |-> release, gainReduction |-> Scale]

LimiterCeiling(st) == st.ceil * (Scale \div 100)

\* A limiter whose gain moves half of the way to the target on each sample
\* instead of dropping to it at once.
Limiter_gainReduction_gradual(st, sample) ==
  LET absSample == Abs(sample)
      ceiling   == LimiterCeiling(st)
  IN  IF absSample > ceiling
      THEN Min(st.gainReduction,
               (st.gainReduction + (ceiling * Scale) \div absSample) \div 2)
      ELSE Min(Scale, Scale + Mul(st.gainReduction - Scale, ExpCoeff(st.rel)))

Limiter_gainReduction(st, sample) ==
  LET absSample == Abs(sample)
      ceiling   == LimiterCeiling(st)
  IN  IF absSample > ceiling
      THEN Min(st.gainReduction, (ceiling * Scale) \div absSample)
      ELSE Min(Scale, Scale + Mul(st.gainReduction - Scale, ExpCoeff(st.rel)))

Limiter_process(st, sample) ==
  LET g == Limiter_gainReduction(st, sample)
  IN  [st |-> [st EXCEPT !.gainReduction = g], out |-> Mul(sample, g)]

\* new MidSideProcessor(width)
MidSideProcessor(width) == [k |-> "MidSideProcessor", width |-> width]

MidSideProcessor_process(st, left, right) ==
  LET mid  == Div0(left + right, 2)
      side == Div0(left - right, 2)
      processedSide == Div0(side * st.width, 10)
  IN  [st |-> st, left |-> mid + processedSide, right |-> mid - processedSide]

\* new MonoBassProcessor(cutoff, sampleRate): alpha = dt / (rc + dt).
MonoBassProcessor(cutoff) ==
  LET w == (cutoff * 6283) \div 1000
  IN  [k |-> "MonoBassProcessor", cutoff |-> cutoff,
       alpha |-> (Scale * w) \div (SampleRate + w), leftLP |-> 0, rightLP |-> 0]

MonoBassProcessor_process(st, left, right) ==
  LET l    == st.leftLP + Mul(st.alpha, left - st.leftLP)
      r    == st.rightLP + Mul(st.alpha, right - st.rightLP)
      mono == Div0(l + r, 2)
  IN  [st    |-> [st EXCEPT !.leftLP = l, !.rightLP = r],
       left  |-> left - l + mono,
       right |-> right - r + mono]

\* A fixed factor applied to the sample between stages (l *= 1.05), in
\* hundredths.
FixedGain(factor) == [k |-> "FixedGain", factor |-> factor]

FixedGain_process(st, sample) == Div0(sample * st.factor, 100)

(***************************************************************************)
(* AdvancedPitchCorrector (advancedPitchCorrector.js).  pitchBuffer is the *)
(* ring of pitchBufferSize samples, kept as the map from the indices       *)
(* written with a non-zero sample to that sample.  detectPitch reads the   *)
(* upper windowSize entries of the ring and returns null while they are    *)
(* all zero, that is until bufferIndex has passed pitchBufferSize -        *)
(* windowSize: up to there smoothedPitch stays 0, processSample takes the  *)
(* "in tune" branch and returns the sample it was given.                   *)
(***************************************************************************)
pitchBufferSize == 2048
windowSize == 1024
hopSize == 256
historySize == 10

\* new AdvancedPitchCorrector(threshold, retuneSpeed, sampleRate)
AdvancedPitchCorrector(threshold, retuneSpeed) ==
  [k |-> "AdvancedPitchCorrector", thr |-> threshold, retuneSpeed |-> retuneSpeed,
   pitchBuffer |-> << >>, bufferIndex |-> 0, pitchHistory |-> << >>,
   smoothedPitch |-> 0, smoothCorrection |-> 0, delayLine |-> FALSE,
   delayData |-> << >>, delayIndex |-> 0, readIndex |-> 0, lastSample |-> 0]

\* The ring after pitchBuffer[bufferIndex] = sample, as the sequence of
\* <<index, sample>> writes that left a non-zero entry.
PitchBufferWrite(buf, index, sample) ==
  LET kept == SelectSeq(buf, LAMBDA w : w[1] # index)
  IN  IF sample = 0 THEN kept ELSE Append(kept, <<index, sample>>)

AdvancedPitchCorrector_processSample(st, sample) ==
  LET buf   == PitchBufferWrite(st.pitchBuffer, st.bufferIndex, sample)
      index == (st.bufferIndex + 1) % pitchBufferSize
      \* smoothedPitch stays 0 until a pitch is detected, so the branch
      \* "absDeviation > threshold" is not taken and smoothCorrection decays.
      corr  == Div0(st.smoothCorrection * 95, 100)
  IN  [st  |-> [st EXCEPT !.pitchBuffer = buf, !.bufferIndex = index,
                          !.smoothCorrection = corr],
       out |-> sample]

StereoOf(a, b) == [st |-> b.st, left |-> a.out, right |-> b.out]

ThenRightSample(a, right) ==
  StereoOf(a, AdvancedPitchCorrector_processSample(a.st, right))

AdvancedPitchCorrector_processStereo(st, left, right) ==
  ThenRightSample(AdvancedPitchCorrector_processSample(st, left), right)

\* The fields reset() assigns whether or not there is a delay line.
Cleared(st) ==
  [st EXCEPT !.pitchBuffer = << >>, !.bufferIndex = 0, !.pitchHistory = << >>,
             !.smoothedPitch = 0, !.smoothCorrection = 0]

\* A reset that leaves the read position of the delay line where it is.
AdvancedPitchCorrector_reset_keepsReadIndex(st) ==
  IF ~st.delayLine THEN Cleared(st)
  ELSE [Cleared(st) EXCEPT !.delayData = << >>, !.delayIndex = 0,
                           !.lastSample = 0]

\* reset(): the delay line, its positions and lastSample only if
\* applyPitchShift has made the delay line.
AdvancedPitchCorrector_reset(st) ==
  IF ~st.delayLine THEN Cleared(st)
  ELSE [Cleared(st) EXCEPT !.delayData = << >>, !.delayIndex = 0,
                           !.readIndex = 512 * Scale, !.lastSample = 0]


(***************************************************************************)
(* Chains.  A chain is the ordered sequence of the stage instances that a  *)
(* preset's per-frame code runs its samples through.                       *)
(***************************************************************************)
PerChannelKinds == {"DynamicEQ", "AdaptiveCompressor", "SoftClipper", "Limiter",
                    "FixedGain"}

\* One per-channel stage applied to one sample.
StageProcess(st, sample) ==
  CASE st.k = "DynamicEQ"          -> DynamicEQ_process(st, sample, sample)
    [] st.k = "AdaptiveCompressor" -> AdaptiveCompressor_process(st, sample)
    [] st.k = "SoftClipper"        -> SoftClipper_process(st, sample)
    [] st.k = "Limiter"            -> Limiter_process(st, sample)
    [] st.k = "FixedGain"          -> [st |-> st, out |-> FixedGain_process(st, sample)]

\* One stage applied to a stereo pair: l first, then r, through the same
\* instance.
PairOf(a, b) == [st |-> b.st, left |-> a.out, right |-> b.out]

ThenRight(a, right) == PairOf(a, StageProcess(a.st, right))

StageProcessPair(st, left, right) ==
  CASE st.k \in PerChannelKinds -> ThenRight(StageProcess(st, left), right)
    [] st.k = "MidSideProcessor"  -> MidSideProcessor_process(st, left, right)
    [] st.k = "MonoBassProcessor" -> MonoBassProcessor_process(st, left, right)
    [] st.k = "AdvancedPitchCorrector" ->
         AdvancedPitchCorrector_processStereo(st, left, right)

\* The stereo pair through stages i..Len(stages), in order.
RECURSIVE ProcessPair(_, _, _, _)
ProcessPair_next(stages, i, r) ==
  ProcessPair([stages EXCEPT ![i] = r.st], i + 1, r.left, r.right)

ProcessPair(stages, i, left, right) ==
  IF i > Len(stages) THEN [stages |-> stages, left |-> left, right |-> right]
  ELSE ProcessPair_next(stages, i, StageProcessPair(stages[i], left, right))

\* One sample of a mono buffer through stages i..Len(stages): the mono branch
\* of the offline presets leaves out the mid/side and mono-bass stages and
\* calls processSample on the pitch corrector.
RECURSIVE ProcessMono(_, _, _)
ProcessMono_next(stages, i, r) ==
  ProcessMono([stages EXCEPT ![i] = r.st], i + 1, r.out)

ProcessMono(stages, i, sample) ==
  IF i > Len(stages) THEN [stages |-> stages, out |-> sample]
  ELSE IF stages[i].k \in {"MidSideProcessor", "MonoBassProcessor"}
       THEN ProcessMono(stages, i + 1, sample)
  ELSE ProcessMono_next(stages, i,
         IF stages[i].k = "AdvancedPitchCorrector"
         THEN AdvancedPitchCorrector_processSample(stages[i], sample)
         ELSE StageProcess(stages[i], sample))

(***************************************************************************)
(* The catalog                                                             *)
(***************************************************************************)
PresetNames ==
  << "De-Harsh", "Mud Remover", "Bass Tamer", "Vintage Warmth", "Modern Bright",
     "Lo-Fi Character", "Neo Soul", "Festival Banger", "Focus Center",
     "Immersive", "Wide & Spacious", "Vocal Forward", "Smooth Mids",
     "Dynamic & Clear", "Maximum Impact", "BigCappo" >>

\* getPresetNames()
getPresetNames == {PresetNames[i] : i \in 1 .. Len(PresetNames)}

\* The stages each real-time factory constructs, in the order its closure
\* runs a frame through them.
RealtimeStages(presetName) ==
  CASE presetName = "De-Harsh" ->
         << DynamicEQ(3500, 20, -1200, 30, 30, 1000, -800),
            AdaptiveCompressor(-1000, 30, 30, 1000, 200, 150),
            SoftClipper(13, 80), Limiter(95, 500) >>
    [] presetName = "Mud Remover" ->
         << MonoBassProcessor(120),
            DynamicEQ(250, 15, -1500, 40, 50, 1500, -1000),
            AdaptiveCompressor(-1200, 25, 30, 800, 150, 100),
            Limiter(95, 500) >>
    [] presetName = "Bass Tamer" ->
         << MonoBassProcessor(120),
            DynamicEQ(60, 10, -1000, 50, 100, 2000, -1200),
            AdaptiveCompressor(-800, 40, 100, 1500, 200, 200),
            Limiter(95, 500) >>
    [] presetName = "Vintage Warmth" ->
         << AdaptiveCompressor(-1400, 20, 100, 2000, 300, 250),
            SoftClipper(18, 70), Limiter(95, 800), FixedGain(105) >>
    [] presetName = "Modern Bright" ->
         << AdaptiveCompressor(-1200, 30, 20, 500, 150, 150),
            FixedGain(120), Limiter(95, 500) >>
    [] presetName = "Lo-Fi Character" ->
         << FixedGain(85),
            AdaptiveCompressor(-1600, 18, 200, 3000, 400, 200),
            SoftClipper(25, 60), Limiter(92, 1000) >>
    [] presetName = "Neo Soul" ->
         << AdaptiveCompressor(-1300, 22, 50, 1200, 250, 180),
            SoftClipper(15, 75), Limiter(95, 600) >>
    [] presetName = "Festival Banger" ->
         << MonoBassProcessor(120),
            AdaptiveCompressor(-600, 40, 10, 300, 100, 400),
            SoftClipper(22, 85), Limiter(98, 100) >>
    [] presetName = "Focus Center" ->
         << MidSideProcessor(6),
            AdaptiveCompressor(-1100, 28, 30, 800, 200, 120),
            Limiter(95, 500) >>
    [] presetName = "Immersive" ->
         << MidSideProcessor(14),
            AdaptiveCompressor(-1200, 25, 40, 1000, 200, 150),
            Limiter(95, 500) >>
    [] presetName = "Wide & Spacious" ->
         << MonoBassProcessor(120), MidSideProcessor(17),
            AdaptiveCompressor(-1100, 26, 30, 900, 200, 120),
            Limiter(95, 500) >>
    [] presetName = "Vocal Forward" ->
         << DynamicEQ(2500, 18, -1400, 25, 20, 600, 600),
            AdaptiveCompressor(-1000, 30, 20, 500, 150, 200),
            Limiter(95, 500) >>
    [] presetName = "Smooth Mids" ->
         << DynamicEQ(2000, 20, -1200, 35, 40, 1200, -700),
            AdaptiveCompressor(-1300, 23, 50, 1000, 250, 120),
            Limiter(95, 600) >>
    [] presetName = "Dynamic & Clear" ->
         << AdaptiveCompressor(-1600, 15, 100, 1500, 400, 80),
            Limiter(95, 800) >>
    [] presetName = "Maximum Impact" ->
         << MonoBassProcessor(120),
            AdaptiveCompressor(-500, 45, 10, 200, 80, 500),
            SoftClipper(25, 88), Limiter(99, 50) >>
    [] presetName = "BigCappo" ->
         << AdvancedPitchCorrector(25, 2),
            DynamicEQ(3000, 22, -1300, 28, 40, 1000, 300), FixedGain(108),
            AdaptiveCompressor(-1200, 24, 50, 1200, 250, 220),
            SoftClipper(16, 75), Limiter(95, 600) >>

(***************************************************************************)
(* Bounds of the model                                                     *)
(***************************************************************************)
\* Frames in one audio block (4096 in the program).
BlockLen == 2
\* Blocks one chain is driven through before the next setPreset.
MaxBlocks == 2
\* Chains built by createPresetProcessor in one run.
MaxChains == 3

(***************************************************************************)
(* Inputs.  The names a caller passes are the catalog's and the names the  *)
(* preset browser lists (PRESET_CATEGORIES) that the engine's catalog does *)
(* not have.                                                               *)
(***************************************************************************)
UnknownNames == {"Dark Trap"}

CallerNames == getPresetNames \cup UnknownNames

\* The value of currentPreset before any name is assigned.
NullName == "null"

\* A block whose odd frames hold a and whose even frames hold b.
Block(a, b) == [i \in 1 .. BlockLen |-> IF i % 2 = 1 THEN a ELSE b]

Silence == Block(0, 0)

InputBlocks == {Block(Scale, -(Scale \div 2)), Block(Scale \div 10, 0)}

\* The input buffers of an AudioProcessingEvent: numberOfChannels and the
\* channel data.  A node created with no input channels has events whose
\* input buffer has none.
InputBuffers ==
  {[numberOfChannels |-> 0, left |-> Silence, right |-> Silence]}
  \cup {[numberOfChannels |-> 1, left |-> b, right |-> Silence] : b \in InputBlocks}
  \cup {[numberOfChannels |-> 2, left |-> a, right |-> b] :
          a \in InputBlocks, b \in InputBlocks}

(***************************************************************************)
(* RealtimeProcessor (realtimeProcessor.js)                                *)
(***************************************************************************)
VARIABLES
  processor,  \* the RealtimeProcessor: currentPreset and presetProcessor
  thread,     \* what the page's event loop is running, and the call's outcome
  cb,         \* the audio callback: its event, its position and its output
  nextId,     \* the identity the next constructed chain gets
  blocks,     \* blocks processed since the chain was assigned
  presetEngine,    \* the PresetEngine: analysisData
  call,            \* the outcome of the latest PresetEngine.process
  engine,          \* the TrapMasterProEngine's fields
  analysisEngine,  \* the AudioAnalysis: analysisData
  ret              \* what the latest call on the engine returned or threw

\* The keys of the processors table of createPresetProcessor.
RealtimeFactories ==
  { "De-Harsh", "Mud Remover", "Bass Tamer", "Vintage Warmth", "Modern Bright",
    "Lo-Fi Character", "Neo Soul", "Festival Banger", "Focus Center",
    "Immersive", "Wide & Spacious", "Vocal Forward", "Smooth Mids",
    "Dynamic & Clear", "Maximum Impact", "BigCappo" }

\* The values presetProcessor takes: undefined (the constructor does not
\* assign the field), null, or the closure a factory returned together with
\* the stage instances it closes over.  The instances of chain id are
\* <<id, 1>> .. <<id, Len(stages)>>.
Undefined ==
  [kind |-> "undefined", id |-> -1, builtFor |-> NullName, stages |-> << >>]

Null == [kind |-> "null", id |-> -1, builtFor |-> NullName, stages |-> << >>]

Closure(id, presetName, stages) ==
  [kind |-> "closure", id |-> id, builtFor |-> presetName, stages |-> stages]

\* new RealtimeProcessor(audioContext)
RealtimeProcessor == [currentPreset |-> NullName, presetProcessor |-> Undefined]

\* A createPresetProcessor that hands back the chain it already holds for the
\* name instead of calling the factory again.
createPresetProcessor_reuse(self, presetName, id) ==
  IF presetName \in RealtimeFactories
  THEN IF self.presetProcessor.kind = "closure"
          /\ self.presetProcessor.builtFor = presetName
       THEN self.presetProcessor
       ELSE Closure(id, presetName, RealtimeStages(presetName))
  ELSE Null

\* this.createPresetProcessor(presetName): processor ? processor() : null
createPresetProcessor(self, presetName, id) ==
  IF presetName \in RealtimeFactories
  THEN Closure(id, presetName, RealtimeStages(presetName))
  ELSE Null

\* The event loop runs one handler at a time: setPreset and onaudioprocess
\* are both dispatched on the page's main thread.
EventLoopFree_always == TRUE

EventLoopFree == thread.op = "idle"

\* if (this.presetProcessor && this.currentPreset)
ChainActive(self) ==
  self.presetProcessor.kind = "closure" /\ self.currentPreset # NullName

\* setPreset, line 32: this.currentPreset = presetName
setPreset_name(presetName) ==
  /\ EventLoopFree
  /\ nextId < MaxChains
  /\ thread' = [op |-> "setPreset", name |-> presetName, threw |-> FALSE]
  /\ processor' = [processor EXCEPT !.currentPreset = presetName]
  /\ UNCHANGED <<cb, nextId, blocks>>

\* setPreset, line 33: this.presetProcessor = this.createPresetProcessor(...)
setPreset_chain ==
  /\ thread.op = "setPreset"
  /\ LET made == createPresetProcessor(processor, thread.name, nextId)
     IN  /\ processor' = [processor EXCEPT !.presetProcessor = made]
         /\ nextId' = IF made.kind = "closure" /\ made.id = nextId
                      THEN nextId + 1 ELSE nextId
  /\ thread' = [thread EXCEPT !.op = "idle"]
  /\ blocks' = 0
  /\ UNCHANGED cb

\* The audio callback before its first event.
NoCallback ==
  [pc |-> "none", numberOfChannels |-> 0, inputLeft |-> Silence,
   inputRight |-> Silence, outputLeft |-> Silence, outputRight |-> Silence,
   i |-> 0, branch |-> "none", chain |-> -1, preset |-> NullName]

\* outputLeft[i] = inputLeft[i]; outputRight[i] = inputRight[i]
PassThrough(left, right) == [left |-> left, right |-> right]

\* processAudio, lines 370-383: the channel data is fetched and the branch is
\* chosen.  getChannelData(0) throws on an input buffer without channels; the
\* handler has no try/catch, so the exception leaves the callback and the
\* output buffer stays as the node allocated it (silence).
processAudio_begin(e) ==
  /\ EventLoopFree
  /\ blocks < MaxBlocks
  /\ IF e.numberOfChannels = 0
     THEN /\ cb' = [NoCallback EXCEPT !.pc = "threw"]
          /\ blocks' = blocks + 1
          /\ UNCHANGED thread
     ELSE /\ cb' = [pc |-> "running",
                    numberOfChannels |-> e.numberOfChannels,
                    inputLeft |-> e.left,
                    inputRight |-> IF e.numberOfChannels > 1 THEN e.right
                                   ELSE e.left,
                    outputLeft |-> Silence, outputRight |-> Silence,
                    i |-> 0,
                    branch |-> IF ChainActive(processor) THEN "chain" ELSE "pass",
                    chain |-> processor.presetProcessor.id,
                    preset |-> processor.currentPreset]
          /\ thread' = [thread EXCEPT !.op = "processAudio"]
          /\ UNCHANGED blocks
  /\ UNCHANGED <<processor, nextId>>

\* The position of the callback after frame i + 1.
AfterFrame(c, out, failed) ==
  [c EXCEPT !.i = c.i + 1,
            !.outputLeft[c.i + 1] = IF failed THEN @ ELSE out.left,
            !.outputRight[c.i + 1] = IF failed THEN @ ELSE out.right,
            !.pc = IF failed THEN "threw"
                   ELSE IF c.i + 1 = BlockLen THEN "returned" ELSE "running"]

\* lines 386-388: the frame the closure returned is written out; the stages
\* it closes over are as the call left them.
processAudio_chain(processed) ==
  /\ processor' = [processor EXCEPT !.presetProcessor.stages = processed.stages]
  /\ cb' = AfterFrame(cb, processed, FALSE)

\* processAudio, lines 385-395: one iteration of the loop of the chosen
\* branch.  this.presetProcessor is read again on every iteration.
processAudio_frame ==
  /\ thread.op = "processAudio"
  /\ cb.pc = "running"
  /\ LET l == cb.inputLeft[cb.i + 1]
         r == cb.inputRight[cb.i + 1]
         f == processor.presetProcessor
     IN  IF cb.branch = "chain"
         THEN IF f.kind = "closure"
              THEN processAudio_chain(ProcessPair(f.stages, 1, l, r))
              ELSE /\ cb' = AfterFrame(cb, PassThrough(l, r), TRUE)
                   /\ UNCHANGED processor
         ELSE /\ cb' = AfterFrame(cb, PassThrough(l, r), FALSE)
              /\ UNCHANGED processor
  /\ thread' = [thread EXCEPT !.op = IF cb'.pc = "running" THEN "processAudio"
                                     ELSE "idle"]
  /\ blocks' = IF cb'.pc = "running" THEN blocks ELSE blocks + 1
  /\ UNCHANGED nextId

(***************************************************************************)
(* Measurement records and buffers                                         *)
(***************************************************************************)
\* The fields of a measurement record that the chains read, with the shape
\* of the buffer it was computed from.  dynamicRange is in cdB, the
\* fractions are fixed-point, duration is in frames.
Measurement(dynamicRange, harshness, mud, bassStability, vocalDominance, high, duration, channels) ==
  [isNull |-> FALSE, dynamicRange |-> dynamicRange, harshness |-> harshness,
   mud |-> mud, bassStability |-> bassStability,
   vocalDominance |-> vocalDominance, high |-> high,
   duration |-> duration, channels |-> channels]

\* analysisData = null
NullAnalysis ==
  [Measurement(0, 0, 0, 0, 0, 0, 0, 0) EXCEPT !.isNull = TRUE]

\* An AudioBuffer: its shape and the samples of its channels.
AudioBuffer(numberOfChannels, sampleRate, data) ==
  [isNull |-> FALSE, numberOfChannels |-> numberOfChannels,
   length |-> Len(data[1]), sampleRate |-> sampleRate, data |-> data]

\* A buffer field that holds null.
NullBuffer ==
  [isNull |-> TRUE, numberOfChannels |-> 0, length |-> 0, sampleRate |-> 0,
   data |-> << >>]

\* audioContext.createBuffer(numberOfChannels, length, sampleRate): zeros.
createBuffer(numberOfChannels, length, sampleRate) ==
  [isNull |-> FALSE, numberOfChannels |-> numberOfChannels, length |-> length,
   sampleRate |-> sampleRate,
   data |-> [ch \in 1 .. numberOfChannels |-> [i \in 1 .. length |-> 0]]]

(***************************************************************************)
(* The offline presets (presets.js): the stages a preset's constructor     *)
(* builds, after the adaptation that process applies to them before its    *)
(* loop, in the order the loop runs a sample through them.                 *)
(***************************************************************************)
\* this.compressor.adaptThreshold(analysisData) on a new compressor.
Adapted(threshold, ratio, attack, release, knee, makeupGain, analysisData) ==
  AdaptiveCompressor_adaptThreshold(
    AdaptiveCompressor(threshold, ratio, attack, release, knee, makeupGain),
    analysisData)

\* this.dynamicEQ.gain = adaptiveGain
WithGain(eq, adaptiveGain) == [eq EXCEPT !.gain = adaptiveGain]

\* -x * n dB for a fixed-point fraction x, in cdB.
NegTimes(x, n) == -Div0(x * n * 100, Scale)

OfflineStages(presetName, a) ==
  CASE presetName = "De-Harsh" ->
         << WithGain(DynamicEQ(3500, 20, -1200, 30, 30, 1000, -600),
                     Min(-300, NegTimes(a.harshness, 8))),
            Adapted(-1000, 30, 30, 1000, 200, 100, a),
            SoftClipper(12, 80), Limiter(95, 500) >>
    [] presetName = "Mud Remover" ->
         << MonoBassProcessor(120),
            WithGain(DynamicEQ(250, 15, -1500, 40, 50, 1500, -800),
                     Min(-400, NegTimes(a.mud, 10))),
            Adapted(-1200, 25, 30, 800, 150, 50, a), Limiter(95, 500) >>
    [] presetName = "Bass Tamer" ->
         << MonoBassProcessor(120),
            WithGain(DynamicEQ(60, 10, -1000, 50, 100, 2000, -1000),
                     IF a.bassStability > 3000 THEN -600 ELSE -300),
            Adapted(-800, 40, 100, 1500, 200, 150, a), Limiter(95, 500) >>
    [] presetName = "Vintage Warmth" ->
         << Adapted(-1400, 20, 100, 2000, 300, 200, a),
            SoftClipper(15, 70), Limiter(95, 800) >>
    [] presetName = "Modern Bright" ->
         (IF a.high < 3000 THEN << FixedGain(115) >> ELSE << >>)
         \o << Adapted(-1200, 30, 20, 500, 150, 100, a), Limiter(95, 500) >>
    [] presetName = "Lo-Fi Character" ->
         (IF a.high > 3500 THEN << FixedGain(92) >> ELSE << >>)
         \o << Adapted(-1600, 18, 200, 3000, 400, 150, a),
               SoftClipper(20, 60), Limiter(92, 1000) >>
    [] presetName = "Neo Soul" ->
         << Adapted(-1300, 22, 50, 1200, 250, 120, a),
            SoftClipper(13, 75), Limiter(95, 600) >>
    [] presetName = "Festival Banger" ->
         << MonoBassProcessor(120), Adapted(-600, 40, 10, 300, 100, 300, a),
            SoftClipper(18, 85), Limiter(98, 100) >>
    [] presetName = "Focus Center" ->
         << MidSideProcessor(7), Adapted(-1100, 28, 30, 800, 200, 100, a),
            Limiter(95, 500) >>
    [] presetName = "Immersive" ->
         << MidSideProcessor(13), Adapted(-1200, 25, 40, 1000, 200, 120, a),
            Limiter(95, 500) >>
    [] presetName = "Wide & Spacious" ->
         << MonoBassProcessor(120), MidSideProcessor(15),
            Adapted(-1100, 26, 30, 900, 200, 100, a), Limiter(95, 500) >>
    [] presetName = "Vocal Forward" ->
         << WithGain(DynamicEQ(2500, 18, -1400, 25, 20, 600, 400),
                     IF a.vocalDominance < 2500 THEN 400 ELSE 200),
            Adapted(-1000, 30, 20, 500, 150, 150, a), Limiter(95, 500) >>
    [] presetName = "Smooth Mids" ->
         << WithGain(DynamicEQ(2000, 20, -1200, 35, 40, 1200, -500), -500),
            Adapted(-1300, 23, 50, 1000, 250, 100, a), Limiter(95, 600) >>
    [] presetName = "Dynamic & Clear" ->
         << Adapted(-1600, 15, 100, 1500, 400, 50, a), Limiter(95, 800) >>
    [] presetName = "Maximum Impact" ->
         << MonoBassProcessor(120), Adapted(-500, 45, 10, 200, 80, 400, a),
            SoftClipper(20, 88), Limiter(99, 50) >>
    [] presetName = "BigCappo" ->
         << AdvancedPitchCorrector_reset(AdvancedPitchCorrector(25, 2)),
            DynamicEQ(3000, 22, -1300, 28, 40, 1000, 200), FixedGain(108) >>
         \o (IF a.harshness > 2500 THEN << FixedGain(97) >> ELSE << >>)
         \o << Adapted(-1200, 24, 50, 1200, 250, 180, a),
               SoftClipper(14, 75), Limiter(95, 600) >>

\* The presets whose loop takes the channels of a frame one after the other,
\* each through the whole stage sequence (for i ... for ch ...).
PerChannelPresets ==
  { "De-Harsh", "Vintage Warmth", "Modern Bright", "Lo-Fi Character",
    "Neo Soul", "Vocal Forward", "Smooth Mids", "Dynamic & Clear" }

\* for (i ...) for (ch ...): sample ch of frame i through every stage, then
\* the next channel of the frame, then the next frame.  Also the loop of the
\* mono branch (one channel).
RECURSIVE PerChannelLoop(_, _, _, _)
PerChannelLoop_next(data, i, ch, r) ==
  PerChannelLoop(r.stages, [data EXCEPT ![ch][i] = r.out], i, ch + 1)

PerChannelLoop(stages, data, i, ch) ==
  IF i > Len(data[1]) THEN [stages |-> stages, data |-> data]
  ELSE IF ch > Len(data) THEN PerChannelLoop(stages, data, i + 1, 1)
  ELSE PerChannelLoop_next(data, i, ch, ProcessMono(stages, 1, data[ch][i]))

\* if (channels >= 2): frame i of the first two channels through the stages
\* as a pair, then the next frame.
RECURSIVE PairLoop(_, _, _)
PairLoop_next(data, i, r) ==
  PairLoop(r.stages, [data EXCEPT ![1][i] = r.left, ![2][i] = r.right], i + 1)

PairLoop(stages, data, i) ==
  IF i > Len(data[1]) THEN [stages |-> stages, data |-> data]
  ELSE PairLoop_next(data, i, ProcessPair(stages, 1, data[1][i], data[2][i]))

\* preset.process(audioBuffer, analysisData): the buffer is processed in
\* place and returned.  Every preset reads a field of analysisData before
\* its loop, which throws a TypeError when analysisData is null.
Preset_loop(presetName, audioBuffer, stages) ==
  IF presetName \in PerChannelPresets \/ audioBuffer.numberOfChannels < 2
  THEN PerChannelLoop(stages, audioBuffer.data, 1, 1)
  ELSE PairLoop(stages, audioBuffer.data, 1)

Preset_return(audioBuffer, r) ==
  [threw |-> "no", audioBuffer |-> [audioBuffer EXCEPT !.data = r.data],
   stages |-> r.stages]

Preset_process(presetName, audioBuffer, analysisData) ==
  IF analysisData.isNull
  THEN [threw |-> "TypeError", audioBuffer |-> audioBuffer, stages |-> << >>]
  ELSE Preset_return(audioBuffer,
         Preset_loop(presetName, audioBuffer,
                     OfflineStages(presetName, analysisData)))

(***************************************************************************)
(* PresetEngine (presets.js)                                               *)
(***************************************************************************)
\* The keys of the presets table of getPreset.
presets ==
  { "De-Harsh", "Mud Remover", "Bass Tamer", "Vintage Warmth", "Modern Bright",
    "Lo-Fi Character", "Neo Soul", "Festival Banger", "Focus Center",
    "Immersive", "Wide & Spacious", "Vocal Forward", "Smooth Mids",
    "Dynamic & Clear", "Maximum Impact", "BigCappo" }

\* getPreset(presetName) finds a preset: presets[presetName] is not undefined.
\* A lookup table that lacks the last entry of the catalog.
getPreset_missing(presetName) == presetName \in presets \ {"BigCappo"}

getPreset(presetName) == presetName \in presets

\* new PresetEngine(audioContext, sampleRate)
PresetEngine == [analysisData |-> NullAnalysis]

\* The outcome of a call process(given, name): what it threw or "no", the
\* buffer it returned, the argument buffer as the call left it, the preset
\* that ran with the record handed to it, and the preset's stages after the
\* run.
Outcome(name, given, threw, result, audioBuffer, presetName, analysisData, stages) ==
  [name |-> name, given |-> given, threw |-> threw, result |-> result,
   audioBuffer |-> audioBuffer, preset |-> presetName,
   analysisData |-> analysisData, stages |-> stages]

\* No call of process made yet.
NoCall ==
  Outcome(NullName, NullBuffer, "none", NullBuffer, NullBuffer, NullName,
          NullAnalysis, << >>)

\* What process passes on from preset.process: its exception, or its buffer.
PresetEngine_return(self, given, after, presetName, r) ==
  IF r.threw # "no"
  THEN Outcome(presetName, given, r.threw, NullBuffer, after, presetName,
               self.analysisData, << >>)
  ELSE Outcome(presetName, given, "no", r.audioBuffer, after, presetName,
               self.analysisData, r.stages)

\* The argument buffer as preset.process leaves it when it is handed the
\* buffer itself.
Aliased(audioBuffer, r) ==
  IF r.threw # "no" THEN audioBuffer ELSE r.audioBuffer

PresetEngine_inPlace(self, audioBuffer, presetName, r) ==
  PresetEngine_return(self, audioBuffer, Aliased(audioBuffer, r), presetName, r)

\* A process that runs the preset on the buffer it was given.
PresetEngine_process_inPlace(self, audioBuffer, presetName) ==
  IF ~getPreset(presetName)
  THEN Outcome(presetName, audioBuffer, "not found", NullBuffer, audioBuffer,
               NullName, NullAnalysis, << >>)
  ELSE PresetEngine_inPlace(self, audioBuffer, presetName,
         Preset_process(presetName, audioBuffer, self.analysisData))

\* The working buffer of process: createBuffer, then the copy loop.
WorkingCopy(audioBuffer) ==
  [createBuffer(audioBuffer.numberOfChannels, audioBuffer.length,
                audioBuffer.sampleRate)
     EXCEPT !.data = [ch \in 1 .. audioBuffer.numberOfChannels |->
                        [i \in 1 .. audioBuffer.length |->
                           audioBuffer.data[ch][i]]]]

\* PresetEngine.process(audioBuffer, presetName)
PresetEngine_process(self, audioBuffer, presetName) ==
  IF ~getPreset(presetName)
  THEN Outcome(presetName, audioBuffer, "not found", NullBuffer, audioBuffer,
               NullName, NullAnalysis, << >>)
  ELSE PresetEngine_return(self, audioBuffer, audioBuffer, presetName,
         Preset_process(presetName, WorkingCopy(audioBuffer),
                        self.analysisData))

\* presetEngine.setAnalysis(analysisData).  call is the outcome of the
\* process made since the record was set.
setAnalysis(analysisData) ==
  /\ presetEngine' = [presetEngine EXCEPT !.analysisData = analysisData]
  /\ call' = NoCall

\* await presetEngine.process(audioBuffer, presetName).  process builds its
\* presets anew and leaves the engine as it found it, so a second call
\* under the same record reaches nothing the first does not: one is made.
process(audioBuffer, presetName) ==
  /\ call = NoCall
  /\ call' = PresetEngine_process(presetEngine, audioBuffer, presetName)
  /\ UNCHANGED presetEngine

(***************************************************************************)
(* Inputs of the preset engine                                             *)
(***************************************************************************)
\* Frames of the longest buffer.
BufLen == 2

SampleValues == {0, Scale, -(Scale \div 2)}

SampleRates == {44100, 48000}

\* All channel contents of 1 .. BufLen frames.
ChannelData == UNION {[1 .. n -> SampleValues] : n \in 1 .. BufLen}

\* The mono and stereo buffers over the sample values.
Buffers ==
  {AudioBuffer(1, sr, <<d>>) : sr \in SampleRates, d \in ChannelData}
  \cup {AudioBuffer(2, sr, <<d, e>>) :
          sr \in SampleRates,
          d \in [1 .. BufLen -> SampleValues], e \in [1 .. BufLen -> SampleValues]}

\* Measurement records: the one analyze gives a steady signal, and records
\* on either side of the thresholds the presets compare their fields with.
MeasurementRecords ==
  { Measurement(0, 0, 0, 0, 0, 3300, BufLen, 2),
    Measurement(2000, 5000, 6000, 4000, 3000, 2000, BufLen, 2),
    Measurement(600, 2000, 1000, 2000, 1000, 4000, 1, 1),
    Measurement(1200, 2000, 1000, 2000, 1000, 4000, 1, 1) }

(***************************************************************************)
(* AudioAnalysis (audioAnalysis.js)                                        *)
(***************************************************************************)
\* The sum of the squares of samples[i..], and their peak magnitude.
RECURSIVE SumSquared(_, _)
SumSquared(samples, i) ==
  IF i > Len(samples) THEN 0
  ELSE Mul(samples[i], samples[i]) + SumSquared(samples, i + 1)

RECURSIVE Peak(_, _)
Peak(samples, i) ==
  IF i > Len(samples) THEN 0
  ELSE Max(Abs(samples[i]), Peak(samples, i + 1))

\* calculateDynamicRange(samples).dynamicRange: 20 log10(peak / rms), 0 for
\* a silent buffer.  20 log10(rms) is half the level of the mean square.
calculateDynamicRange(samples) ==
  LET peak == Peak(samples, 1)
      mean == SumSquared(samples, 1) \div Len(samples)
  IN  IF peak > 0 THEN ToDb(peak) - ToDb(mean) \div 2 ELSE 0

\* The analyser of calculateSpectralBalance and of the four band measures is
\* read before its source has played anything, so every bin is 0: total is
\* 0, the balance is 0.33 each and the band fractions are 0.
EmptySpectrumBalance == (33 * Scale) \div 100

EmptySpectrumFraction == 0 * Scale

\* analysisEngine.analyze(audioBuffer)
analyze(audioBuffer) ==
  Measurement(calculateDynamicRange(audioBuffer.data[1]),
              EmptySpectrumFraction, EmptySpectrumFraction,
              EmptySpectrumFraction, EmptySpectrumFraction,
              EmptySpectrumBalance, audioBuffer.length,
              audioBuffer.numberOfChannels)

\* new AudioAnalysis(audioContext, sampleRate)
AudioAnalysis == [analysisData |-> NullAnalysis]

(***************************************************************************)
(* TrapMasterProEngine (audioEngine.js)                                    *)
(***************************************************************************)
\* new TrapMasterProEngine(): the constructor assigns neither
\* realtimeProcessor nor currentSource, and no other method assigns
\* realtimeProcessor.
TrapMasterProEngine ==
  [audioContext |-> FALSE, originalBuffer |-> NullBuffer,
   processedBuffer |-> NullBuffer, analysisData |-> NullAnalysis,
   currentPreset |-> NullName, realtimeProcessor |-> "undefined",
   currentSource |-> FALSE]

\* What a call on the engine returned ({success: ...}) or threw.
Returned(op, name, success) ==
  [op |-> op, name |-> name, threw |-> "no", success |-> success]

Threw(op, name, error) ==
  [op |-> op, name |-> name, threw |-> error, success |-> FALSE]

\* The files a user loads, as the buffers decodeAudioData makes of them.
Files ==
  { AudioBuffer(2, 44100, << <<Scale, -(Scale \div 2)>>, <<0, Scale>> >>),
    AudioBuffer(2, 44100, << <<Scale, 0>>, <<Scale, 0>> >>),
    AudioBuffer(1, 48000, << <<Scale>> >>) }

\* The names the user of the engine picks from: a preset that loops channel
\* by channel, one that works on the stereo pair, the one with the pitch
\* corrector, and a name of PRESET_CATEGORIES that the catalog lacks.  The
\* engine hands the name on to PresetEngine.process and to setPreset and
\* does nothing else with it.
EngineNames == {"De-Harsh", "Maximum Impact", "BigCappo"} \cup UnknownNames

\* How a loadAudioFile goes: through, or with decodeAudioData or analyze
\* throwing.
LoadOutcomes == {"ok", "decode fails", "analyze fails"}

\* initialize(): new AudioContext() may throw; then nothing is assigned.
initialize(ok) ==
  /\ IF ok
     THEN /\ engine' = [engine EXCEPT !.audioContext = TRUE]
          /\ analysisEngine' = AudioAnalysis
          /\ presetEngine' = PresetEngine
     ELSE UNCHANGED <<engine, analysisEngine, presetEngine>>
  /\ ret' = Returned("initialize", NullName, ok)
  /\ call' = NoCall

\* loadAudioFile(file): the body is one try block whose catch returns
\* {success: false}.
loadAudioFile(audioBuffer, outcome) ==
  /\ IF ~engine.audioContext \/ outcome = "decode fails"
     THEN /\ ret' = Returned("loadAudioFile", NullName, FALSE)
          /\ UNCHANGED <<engine, analysisEngine, presetEngine>>
     ELSE IF outcome = "analyze fails"
     THEN /\ engine' = [engine EXCEPT !.originalBuffer = audioBuffer,
                                      !.processedBuffer = NullBuffer,
                                      !.analysisData = NullAnalysis]
          /\ ret' = Returned("loadAudioFile", NullName, FALSE)
          /\ UNCHANGED <<analysisEngine, presetEngine>>
     ELSE LET analysisData == analyze(audioBuffer)
          IN  /\ engine' = [engine EXCEPT !.originalBuffer = audioBuffer,
                                          !.processedBuffer = NullBuffer,
                                          !.analysisData = analysisData]
              /\ analysisEngine' = [analysisEngine EXCEPT
                                      !.analysisData = analysisData]
              /\ presetEngine' = [presetEngine EXCEPT
                                    !.analysisData = analysisData]
              /\ ret' = Returned("loadAudioFile", NullName, TRUE)
  /\ call' = NoCall

\* processPreset, lines 92-113, with what presetEngine.process came to.
processPreset_after(presetName, made) ==
  /\ call' = made
  /\ UNCHANGED presetEngine
  /\ IF made.threw # "no"
     THEN /\ engine' = [engine EXCEPT !.currentPreset = presetName]
          /\ ret' = Returned("processPreset", presetName, FALSE)
          /\ UNCHANGED analysisEngine
     ELSE /\ engine' = [engine EXCEPT !.currentPreset = presetName,
                                      !.processedBuffer = made.result]
          /\ analysisEngine' = [analysisEngine EXCEPT
                                  !.analysisData = analyze(made.result)]
          \* originalLUFS: this.analysisData.integratedLUFS
          /\ ret' = Returned("processPreset", presetName,
                             ~engine.analysisData.isNull)

\* processPreset(presetName)
processPreset(presetName) ==
  IF engine.originalBuffer.isNull
  THEN /\ ret' = Threw("processPreset", presetName, "No audio loaded")
       /\ call' = NoCall
       /\ UNCHANGED <<engine, analysisEngine, presetEngine>>
  ELSE processPreset_after(presetName,
         PresetEngine_process(presetEngine, engine.originalBuffer, presetName))

\* realtimeProcessor.setPreset(presetName) as one call: the processor after
\* both assignments.
setPreset(self, presetName, id) ==
  LET named == [self EXCEPT !.currentPreset = presetName]
  IN  [named EXCEPT !.presetProcessor =
                       createPresetProcessor(named, presetName, id)]

\* stopRealtime()
stopRealtime(self) == [self EXCEPT !.currentSource = FALSE]

\* playRealtime(presetName, ...): this.realtimeProcessor.setPreset(...) at
\* line 580 is a call on undefined while the field is unassigned, a
\* TypeError that nothing catches.
playRealtime(presetName) ==
  /\ call' = NoCall
  /\ IF engine.originalBuffer.isNull
     THEN /\ ret' = Threw("playRealtime", presetName, "No audio loaded")
          /\ UNCHANGED <<engine, processor, nextId>>
     ELSE IF engine.realtimeProcessor = "undefined"
     THEN /\ engine' = stopRealtime(engine)
          /\ ret' = Threw("playRealtime", presetName, "TypeError")
          /\ UNCHANGED <<processor, nextId>>
     ELSE /\ processor' = setPreset(processor, presetName, nextId)
          /\ nextId' = nextId + 1
          /\ engine' = [engine EXCEPT !.currentPreset = presetName,
                                      !.currentSource = TRUE]
          /\ ret' = Returned("playRealtime", presetName, TRUE)

\* switchPresetRealtime(presetName)
switchPresetRealtime(presetName) ==
  /\ IF engine.realtimeProcessor # "undefined" /\ engine.currentSource
     THEN /\ processor' = setPreset(processor, presetName, nextId)
          /\ nextId' = nextId + 1
          /\ engine' = [engine EXCEPT !.currentPreset = presetName]
     ELSE UNCHANGED <<engine, processor, nextId>>
  /\ ret' = Returned("switchPresetRealtime", presetName, TRUE)
  /\ call' = NoCall

(***************************************************************************)
(* Lossless processing (losslessProcessor.js)                              *)
(*   ceilings, loudness targets and levels: cdB                            *)
(***************************************************************************)
sincFilterLength == 64

\* createSincFilter(): sinc(pi x) under a Blackman window, x = (i - 32) / 32,
\* for i = 0 .. 63, times Scale.
sincFilter ==
  << 0, 0, 2, 8, 21, 43, 79, 131,
     207, 310, 446, 621, 841, 1110, 1432, 1810,
     2244, 2735, 3277, 3865, 4491, 5145, 5813, 6482,
     7135, 7756, 8329, 8838, 9269, 9608, 9845, 9974,
     10000, 9893, 9685, 9374, 8969, 8481, 7925, 7316,
     6670, 6005, 5336, 4677, 4042, 3443, 2887, 2383,
     1932, 1538, 1201, 917, 683, 495, 348, 236,
     153, 93, 53, 27, 12, 4, 1, 0 >>

\* The inner loop of convert: the sum of inputData[sampleIndex] *
\* sincFilter[j] over the j for which sampleIndex = inputIndex + j - 32 is
\* a sample of the input; k runs over the samples of the input.
RECURSIVE SincSum(_, _, _)
SincSum(inputData, inputIndex, k) ==
  IF k > Len(inputData) THEN 0
  ELSE LET j == (k - 1) - inputIndex + sincFilterLength \div 2
       IN  (IF j >= 0 /\ j < sincFilterLength
            THEN Mul(inputData[k], sincFilter[j + 1]) ELSE 0)
           + SincSum(inputData, inputIndex, k + 1)

\* Math.floor(inputLength * ratio), ratio = outputRate / inputRate
OutputLength(inputLength, inputRate, outputRate) ==
  (inputLength * outputRate) \div inputRate

\* new LosslessSampleRateConverter(inputRate, outputRate).convert(audioBuffer):
\* a new buffer at the output rate; inputIndex = floor(i / ratio).
LosslessSampleRateConverter_convert(inputRate, outputRate, audioBuffer) ==
  IF inputRate = outputRate THEN audioBuffer
  ELSE [isNull |-> FALSE, numberOfChannels |-> audioBuffer.numberOfChannels,
        length |-> OutputLength(audioBuffer.length, inputRate, outputRate),
        sampleRate |-> outputRate,
        data |-> [ch \in 1 .. audioBuffer.numberOfChannels |->
                    [i \in 1 .. OutputLength(audioBuffer.length, inputRate,
                                             outputRate) |->
                       SincSum(audioBuffer.data[ch],
                               ((i - 1) * inputRate) \div outputRate, 1)]]]

\* The sum of data[i] * data[i] over every channel of a buffer.
RECURSIVE SumSquaredChannels(_, _)
SumSquaredChannels(data, ch) ==
  IF ch > Len(data) THEN 0
  ELSE SumSquared(data[ch], 1) + SumSquaredChannels(data, ch + 1)

\* 0.691 dB, in cdB.
LufsOffset == 69

SilentLUFS == -70 * 100

\* rms > 0 ? -0.691 + 10 * Math.log10(rms) : -70, with rms the root of the
\* mean square: 10 log10(rms) is a quarter of 20 log10(mean square).
LufsOfMeanSquare(meanSquare) ==
  IF meanSquare > 0 THEN ToDb(meanSquare) \div 4 - LufsOffset ELSE SilentLUFS

\* currentLUFS of calculateGain.
currentLUFS(audioBuffer) ==
  LufsOfMeanSquare(SumSquaredChannels(audioBuffer.data, 1)
                     \div (audioBuffer.length * audioBuffer.numberOfChannels))

\* Math.pow(10, lufsDifference / 20)
GainOf(lufsDifference) == Lin(lufsDifference)

\* LosslessNormalizer.calculateGain: at most 2.0.
LosslessNormalizer_calculateGain(targetLUFS, audioBuffer) ==
  Min(GainOf(targetLUFS - currentLUFS(audioBuffer)), 2 * Scale)

\* The buffer with every sample multiplied by gain.
Scaled(audioBuffer, gain) ==
  [audioBuffer EXCEPT !.data =
     [ch \in 1 .. audioBuffer.numberOfChannels |->
        [i \in 1 .. audioBuffer.length |-> Mul(audioBuffer.data[ch][i], gain)]]]

\* LosslessNormalizer.normalize: the samples of audioBuffer after the call.
LosslessNormalizer_normalize(targetLUFS, audioBuffer) ==
  Scaled(audioBuffer, LosslessNormalizer_calculateGain(targetLUFS, audioBuffer))

\* new LosslessTruePeakLimiter(ceiling, sampleRate)
LosslessTruePeakLimiter(ceiling) ==
  [ceiling |-> ceiling, gainReduction |-> Scale, lastSample |-> 0]

\* detectTruePeak: the larger magnitude with a margin of 1 %.
detectTruePeak(currentSample, previousSample) ==
  (Max(Abs(currentSample), Abs(previousSample)) * 101) \div 100

\* A limiter that takes back half of the excess only and forgets the gain
\* of earlier peaks.
TruePeakGain_unclamped(st, peakDB) ==
  IF peakDB > st.ceiling THEN Lin((st.ceiling - peakDB) \div 2)
  ELSE st.gainReduction

\* The gain after a detected peak of peakDB.
TruePeakGain(st, peakDB) ==
  IF peakDB > st.ceiling
  THEN Min(st.gainReduction, Lin(st.ceiling - peakDB))
  ELSE st.gainReduction

LimiterStep(st, sample, gain) ==
  [st  |-> [st EXCEPT !.gainReduction = gain, !.lastSample = sample],
   out |-> Mul(sample, gain)]

\* LosslessTruePeakLimiter.process(sample)
LosslessTruePeakLimiter_process(st, sample) ==
  LimiterStep(st, sample,
              TruePeakGain(st, ToDb(detectTruePeak(sample, st.lastSample))))

\* for (ch ...) for (i ...) data[i] = limiter.process(data[i]): channel
\* after channel through the one limiter.
RECURSIVE LimitLoop(_, _, _, _)
LimitLoop_next(data, ch, i, r) ==
  LimitLoop(r.st, [data EXCEPT ![ch][i] = r.out], ch, i + 1)

LimitLoop(st, data, ch, i) ==
  IF ch > Len(data) THEN data
  ELSE IF i > Len(data[ch]) THEN LimitLoop(st, data, ch + 1, 1)
  ELSE LimitLoop_next(data, ch, i,
                      LosslessTruePeakLimiter_process(st, data[ch][i]))

\* The buffer after the limiting loop with a new limiter of the ceiling.
Limited(audioBuffer, ceiling) ==
  [audioBuffer EXCEPT
     !.data = LimitLoop(LosslessTruePeakLimiter(ceiling), audioBuffer.data, 1, 1)]

(***************************************************************************)
(* ExportValidator (exportValidator.js)                                    *)
(***************************************************************************)
\* -Infinity, the level of a peak of 0.
NegInfinity == 0 - 1000000

\* A number that is null or was not given.
NoNumber == 0 - 99999

\* Math.max(prev, curr, next) for an inner sample, the sample's own magnitude
\* for the first and the last.
InterpPeak(samples, i) ==
  IF i > 1 /\ i < Len(samples)
  THEN Max(Abs(samples[i - 1]), Max(Abs(samples[i]), Abs(samples[i + 1])))
  ELSE Abs(samples[i])

\* The largest magnitude, and the largest interpolated peak, of samples[i..].
RECURSIVE TruePeak(_, _)
TruePeak(samples, i) ==
  IF i > Len(samples) THEN 0
  ELSE Max(InterpPeak(samples, i), TruePeak(samples, i + 1))

RECURSIVE PeakOfChannels(_, _)
PeakOfChannels(data, ch) ==
  IF ch > Len(data) THEN 0
  ELSE Max(Peak(data[ch], 1), PeakOfChannels(data, ch + 1))

RECURSIVE TruePeakOfChannels(_, _)
TruePeakOfChannels(data, ch) ==
  IF ch > Len(data) THEN 0
  ELSE Max(TruePeak(data[ch], 1), TruePeakOfChannels(data, ch + 1))

\* peak > 0 ? 20 * Math.log10(peak) : -Infinity
PeakDb(peak) == IF peak > 0 THEN ToDb(peak) ELSE NegInfinity

\* measurePeaks(audioBuffer)
measurePeaks(audioBuffer) ==
  [peak     |-> PeakDb(PeakOfChannels(audioBuffer.data, 1)),
   truePeak |-> PeakDb(TruePeakOfChannels(audioBuffer.data, 1))]

\* measureLUFS(audioBuffer): the formula of the normalizer, kept in [-70, 0].
measureLUFS(audioBuffer) ==
  Max(SilentLUFS, Min(0, currentLUFS(audioBuffer)))

\* The results of validate from what it measured.
ValidationResults(audioBuffer, targetSpecs, peaks, lufs) ==
  [isNull |-> FALSE, sampleRate |-> audioBuffer.sampleRate,
   bitDepth |-> "float32", channels |-> audioBuffer.numberOfChannels,
   length |-> audioBuffer.length,
   peak |-> peaks.peak, truePeak |-> peaks.truePeak, lufs |-> lufs,
   valid |-> ~(peaks.truePeak > targetSpecs.truePeakCeiling),
   hasErrors |-> peaks.truePeak > targetSpecs.truePeakCeiling,
   hasWarnings |-> \/ audioBuffer.sampleRate # targetSpecs.sampleRate
                   \/ Abs(lufs - targetSpecs.targetLUFS) > 100]

\* validator.validate(audioBuffer, targetSpecs), with a sample rate, a
\* true-peak ceiling and a loudness target in targetSpecs.
validate(audioBuffer, targetSpecs) ==
  ValidationResults(audioBuffer, targetSpecs, measurePeaks(audioBuffer),
                    measureLUFS(audioBuffer))

\* validationResults = null
NoValidation ==
  [isNull |-> TRUE, sampleRate |-> 0, bitDepth |-> "none", channels |-> 0,
   length |-> 0, peak |-> NegInfinity, truePeak |-> NegInfinity,
   lufs |-> SilentLUFS, valid |-> FALSE, hasErrors |-> FALSE,
   hasWarnings |-> FALSE]

\* validateExportedFile(blob, expectedSpecs).valid: the fmt chunk is read at
\* offset 12 and compared with what the export meant to write.
validateExportedFile(file, expectedSpecs) ==
  /\ file.sampleRate = expectedSpecs.sampleRate
  /\ file.bitsPerSample = expectedSpecs.bitDepth
  /\ file.audioFormat = (IF expectedSpecs.bitDepth = 32 THEN 3 ELSE 1)

(***************************************************************************)
(* The WAV writer of exportToWAV (audioEngine.js, lines 237-351)           *)
(***************************************************************************)
\* new ProfessionalDither(bitDepth), and no dither processor.
ProfessionalDither(bitDepth) == [on |-> TRUE, lastError |-> 0]

NoDither == [on |-> FALSE, lastError |-> 0]

\* ditherProcessor.applyDither(sample): the sample plus the noise less half
\* of the last error.  The quantization step 2^-(bitDepth - 1) is finer than
\* the samples here, so quantizing changes nothing and the error is 0.
applyDither(st, sample, noise) ==
  [st |-> [st EXCEPT !.lastError = 0],
   out |-> sample + noise - st.lastError \div 2]

\* Math.max(-1, Math.min(1, sample))
Clamp(sample) == Max(-Scale, Min(Scale, sample))

\* The value written for one sample: clamped, then dithered if there is a
\* dither processor.
Written(ditherProcessor, sample, noise) ==
  IF ditherProcessor.on
  THEN applyDither(ditherProcessor, Clamp(sample), noise).out
  ELSE Clamp(sample)

\* The dither processor of each branch: none for 32-bit float,
\* dither ? new ProfessionalDither(bitDepth) : null for 24 and 16 bit.
DitherProcessor(bitDepth, dither) ==
  IF bitDepth = 32 THEN NoDither
  ELSE IF dither THEN ProfessionalDither(bitDepth) ELSE NoDither

bytesPerSample(bitDepth) ==
  IF bitDepth = 32 THEN 4 ELSE IF bitDepth = 24 THEN 3 ELSE 2

headerSize(bitDepth) ==
  IF bitDepth = 32 THEN 58 ELSE IF bitDepth = 24 THEN 50 ELSE 44

\* The offset at which 'data' is written; the chunk's size follows at + 4
\* and the samples at + 8.
dataChunkOffset(bitDepth) == IF bitDepth \in {32, 24} THEN 38 ELSE 36

\* The file the writer builds for workingBuffer: the size of the
\* ArrayBuffer, the fields of the header, and the samples frame by frame.
WavFile(bitDepth, workingBuffer, dither, noise) ==
  [isNull        |-> FALSE,
   byteLength    |-> headerSize(bitDepth)
                       + workingBuffer.length * workingBuffer.numberOfChannels
                           * bytesPerSample(bitDepth),
   riffSize      |-> headerSize(bitDepth) - 8
                       + workingBuffer.length * workingBuffer.numberOfChannels
                           * bytesPerSample(bitDepth),
   fmtChunkSize  |-> IF bitDepth \in {32, 24} THEN 18 ELSE 16,
   audioFormat   |-> IF bitDepth = 32 THEN 3 ELSE 1,
   channels      |-> workingBuffer.numberOfChannels,
   sampleRate    |-> workingBuffer.sampleRate,
   byteRate      |-> workingBuffer.sampleRate * workingBuffer.numberOfChannels
                       * bytesPerSample(bitDepth),
   blockAlign    |-> workingBuffer.numberOfChannels * bytesPerSample(bitDepth),
   bitsPerSample |-> bitDepth,
   dataOffset    |-> dataChunkOffset(bitDepth),
   dataSize      |-> workingBuffer.length * workingBuffer.numberOfChannels
                       * bytesPerSample(bitDepth),
   dithered      |-> DitherProcessor(bitDepth, dither).on,
   samples       |-> [i \in 1 .. workingBuffer.length |->
                        [ch \in 1 .. workingBuffer.numberOfChannels |->
                           Written(DitherProcessor(bitDepth, dither),
                                   workingBuffer.data[ch][i], noise)]]]

\* No file was written.
NoFile ==
  [isNull |-> TRUE, byteLength |-> 0, riffSize |-> 0, fmtChunkSize |-> 0,
   audioFormat |-> 0, channels |-> 0, sampleRate |-> 0, byteRate |-> 0,
   blockAlign |-> 0, bitsPerSample |-> 0, dataOffset |-> 0, dataSize |-> 0,
   dithered |-> FALSE, samples |-> << >>]

(***************************************************************************)
(* The integers of the 16 and 24 bit writers (audioEngine.js, lines        *)
(* 295-350) and the quantizer of ProfessionalDither.applyDither.  The      *)
(* dither, the last error and the dithered sample are counted in           *)
(* sixteenths of a quantization step.                                      *)
(***************************************************************************)
SubSteps == 4 * 4

RECURSIVE Pow(_, _)
\* Math.pow(base, exponent) for a whole exponent of 0 or more
Pow(base, exponent) ==
  IF exponent = 0 THEN 1 ELSE base * Pow(base, exponent - 1)

\* 1 / this.quantizationStep = 2^(bitDepth - 1): the steps in 1.0
StepsPerUnit(bitDepth) == Pow(2, bitDepth - 1)

\* The floor of a * b / c, for 0 < c, without the product a * b.
FloorOfProduct(a, b, c) == a * (b \div c) + (a * (b % c)) \div c

\* Math.random() - Math.random(), a number strictly between -1 and 1, and
\* the error the quantizer left, between -1/2 and 1/2.
Dithers == {-(SubSteps - 1), -(SubSteps \div 2) - 1, 0, SubSteps \div 2, SubSteps - 1}

LastErrors == {-(SubSteps \div 2), 0, SubSteps \div 2}

\* ditheredSample / this.quantizationStep =
\*   (sample + dither - this.lastError * 0.5) / this.quantizationStep
ditheredSample(bitDepth, sample, dither, lastError) ==
  FloorOfProduct(sample, SubSteps * StepsPerUnit(bitDepth), Scale) + dither
    - lastError \div 2

\* Math.round(ditheredSample / this.quantizationStep): halves round up.
\* applyDither returns this number of steps times the step.
quantized(bitDepth, sample, dither, lastError) ==
  (ditheredSample(bitDepth, sample, dither, lastError) + SubSteps \div 2)
    \div SubSteps

\* The 16-bit branch hands setInt16
\*   sample < 0 ? sample * 0x8000 : sample * 0x7FFF
\* for a sample of num / den; setInt16 drops the fraction.
int16Value(num, den) ==
  Div0(IF num < 0 THEN num * 32768 ELSE num * 32767, den)

\* Math.round(sample * maxValue) of a sample the dither processor returned,
\* index steps of 2^-23: index * (1 - 2^-23), halves rounded up.
intSample_dithered(index) ==
  index + (StepsPerUnit(24) - 2 * index) \div (2 * StepsPerUnit(24))

\* Math.round(sample * maxValue) of a clamped sample that was not dithered.
intSample_plain(sample) ==
  sample * ((2 * (StepsPerUnit(24) - 1)) \div (2 * Scale))
    + (sample * ((2 * (StepsPerUnit(24) - 1)) % (2 * Scale)) + Scale)
        \div (2 * Scale)

\* The integer a branch computes for one sample of the working buffer.
intSample(bitDepth, ditherProcessor, sample, dither, lastError) ==
  IF bitDepth = 24
  THEN IF ditherProcessor.on
       THEN intSample_dithered(quantized(24, Clamp(sample), dither, lastError))
       ELSE intSample_plain(Clamp(sample))
  ELSE IF ditherProcessor.on
       THEN int16Value(quantized(16, Clamp(sample), dither, lastError),
                       StepsPerUnit(16))
       ELSE int16Value(Clamp(sample), Scale)

\* What a reader finds in the file: setInt16 keeps the low 16 bits, and the
\* three setUint8 of the 24-bit branch (intSample & 0xFF, >> 8, >> 16) keep
\* the low 24; both are read back as two's complement.
stored(bitDepth, value) ==
  ((value + StepsPerUnit(bitDepth)) % (2 * StepsPerUnit(bitDepth)))
    - StepsPerUnit(bitDepth)

(***************************************************************************)
(* The exports of TrapMasterProEngine (audioEngine.js)                     *)
(***************************************************************************)
VARIABLES held, exported, exports

\* The names exportToWAV declares by destructuring its options (lines
\* 199-205).  It reads truePeakCeiling at line 223.
ExportToWAVLocals ==
  {"bitDepth", "sampleRate", "targetLUFS", "dither", "normalize"}

\* A run of an export up to some statement: what it threw, the caller's
\* buffer as it stands, the working buffer, whether the working buffer is
\* the caller's buffer itself, the stages run and the file written.
Run(threw, caller, workingBuffer, aliased, stages, file) ==
  [threw |-> threw, caller |-> caller, workingBuffer |-> workingBuffer,
   aliased |-> aliased, stages |-> stages, file |-> file]

\* let workingBuffer = audioBuffer
Begin(audioBuffer) == Run("no", audioBuffer, audioBuffer, TRUE, << >>, NoFile)

\* A stage that writes into the working buffer: the caller's buffer changes
\* with it when the two are one object.
InPlace(run, workingBuffer, stage) ==
  [run EXCEPT !.workingBuffer = workingBuffer,
              !.caller = IF run.aliased THEN workingBuffer ELSE @,
              !.stages = Append(@, stage)]

\* Lines 211-214: conversion into a new buffer.  createBuffer throws on a
\* length of 0.
Converted(run, sampleRate) ==
  IF sampleRate # NoNumber /\ sampleRate # run.caller.sampleRate
  THEN IF OutputLength(run.caller.length, run.caller.sampleRate, sampleRate) = 0
       THEN [run EXCEPT !.threw = "NotSupportedError"]
       ELSE [run EXCEPT
               !.workingBuffer =
                  LosslessSampleRateConverter_convert(
                    run.caller.sampleRate, sampleRate, run.workingBuffer),
               !.aliased = FALSE,
               !.stages = Append(@, "convert")]
  ELSE run

\* Lines 217-220 and 461-464: normalizer.normalize(workingBuffer)
Normalized(run, normalize, targetLUFS) ==
  IF run.threw = "no" /\ normalize /\ targetLUFS # NoNumber
  THEN InPlace(run, LosslessNormalizer_normalize(targetLUFS, run.workingBuffer),
               "normalize")
  ELSE run

\* Lines 224-230 and 467-473: the limiting loop on the working buffer.
TruePeakLimited(run, ceiling) ==
  IF run.threw = "no"
  THEN InPlace(run, Limited(run.workingBuffer, ceiling), "limit")
  ELSE run

\* Line 223: if (truePeakCeiling !== null).  The name is not one the
\* function declares, so reading it throws a ReferenceError.
CeilingChecked(run, options) ==
  IF run.threw # "no" THEN run
  ELSE IF "truePeakCeiling" \notin ExportToWAVLocals
       THEN [run EXCEPT !.threw = "ReferenceError"]
  ELSE IF options.truePeakCeiling # NoNumber
       THEN TruePeakLimited(run, options.truePeakCeiling)
  ELSE run

\* Lines 233-353: the file is built from the working buffer.
Encoded(run, options, noise) ==
  IF run.threw # "no" THEN run
  ELSE [run EXCEPT !.file = WavFile(options.bitDepth, run.workingBuffer,
                                    options.dither, noise),
                   !.stages = Append(@, "encode")]

\* The body of exportToWAV(audioBuffer, filename, options).
exportToWAV_run(audioBuffer, options, noise) ==
  Encoded(CeilingChecked(Normalized(Converted(Begin(audioBuffer),
                                              options.sampleRate),
                                    options.normalize, options.targetLUFS),
                         options),
          options, noise)

\* What an export call came to: the run, the buffer the caller passed as it
\* was before the call, the options, the value of success in the object
\* returned, and the results the call's validator holds.
Export(op, given, options, run, success, validation) ==
  [op |-> op, given |-> given, options |-> options, threw |-> run.threw,
   caller |-> run.caller, workingBuffer |-> run.workingBuffer,
   stages |-> run.stages, file |-> run.file, success |-> success,
   validation |-> validation]

WavOptions ==
  [bitDepth : {16, 24, 32}, sampleRate : {NoNumber, 44100, 48000},
   targetLUFS : {NoNumber, -1400}, dither : BOOLEAN, normalize : BOOLEAN,
   truePeakCeiling : {NoNumber, -100}]

Mp3Options ==
  [dither : BOOLEAN, normalize : BOOLEAN, targetLUFS : {NoNumber, -1400}]

AppleOptions == [targetLUFS : {-900, -1400}, truePeakCeiling : {-50}]

\* The options exportToAppleLossless passes to exportToWAV (lines 419-426).
AppleWavOptions(options) ==
  [bitDepth |-> 24, sampleRate |-> 48000, targetLUFS |-> options.targetLUFS,
   truePeakCeiling |-> options.truePeakCeiling, dither |-> TRUE,
   normalize |-> TRUE]

\* The dither noise of a call, in steps of the samples' resolution.
Noise == {0, 1}

\* Exports made of one buffer.
MaxExports == 2

\* The contents of the channels of the buffers that are exported.
ExportChannels ==
  { <<Scale>>, <<Scale, -(Scale \div 2)>>, <<-(Scale \div 2), 0>>, <<0, 0>>,
    <<Scale \div 4, Scale \div 4>> }

\* The buffers a caller exports: mono, and stereo with equal or differing
\* channels, at either rate.
ExportBuffers ==
  {AudioBuffer(1, sr, <<d>>) : sr \in SampleRates, d \in ExportChannels}
  \cup {AudioBuffer(2, sr, <<d, d>>) :
          sr \in SampleRates, d \in {e \in ExportChannels : Len(e) = 2}}
  \cup {AudioBuffer(2, sr, << <<Scale, -(Scale \div 2)>>, <<0, Scale>> >>) :
          sr \in SampleRates}

\* No export made of the buffer yet.
NoExport ==
  Export("none", NullBuffer, << >>, Begin(NullBuffer), FALSE, NoValidation)

\* The caller gets a processed buffer to export (getABBuffers().processed).
take(audioBuffer) ==
  /\ held' = audioBuffer
  /\ exported' = NoExport
  /\ exports' = 0

\* exportToWAV with what its body came to: the object returned has
\* success: true; an exception leaves the call without one.
exportToWAV_return(options, run) ==
  /\ held' = run.caller
  /\ exported' = Export("exportToWAV", held, options, run, run.threw = "no",
                        NoValidation)
  /\ exports' = exports + 1

\* await engine.exportToWAV(held, filename, options)
exportToWAV(options, noise) ==
  /\ ~held.isNull /\ exports < MaxExports
  /\ exportToWAV_return(options, exportToWAV_run(held, options, noise))

\* exportToAppleLossless with the results of the validate of line 409 and
\* what exportToWAV came to: its exception is not caught.
exportToAppleLossless_return(options, validation, run) ==
  /\ held' = run.caller
  /\ exported' = Export("exportToAppleLossless", held, options, run,
                        run.threw = "no", validation)
  /\ exports' = exports + 1

\* await engine.exportToAppleLossless(held, filename, options)
exportToAppleLossless(options, noise) ==
  /\ ~held.isNull /\ exports < MaxExports
  /\ exportToAppleLossless_return(
       options,
       validate(held, [sampleRate |-> 48000, bitDepth |-> 24,
                       targetLUFS |-> options.targetLUFS,
                       truePeakCeiling |-> options.truePeakCeiling]),
       exportToWAV_run(held, AppleWavOptions(options), noise))

\* The ceiling exportToMP3 limits to: -1.0 dB.
Mp3Ceiling == 0 - 100

\* Lines 459-473 of exportToMP3.
exportToMP3_run(audioBuffer, options) ==
  TruePeakLimited(Normalized(Begin(audioBuffer), options.normalize,
                             options.targetLUFS),
                  Mp3Ceiling)

\* The 16-bit samples handed to the encoder (lines 491-507).
Mp3Input(run, options, noise) ==
  [run EXCEPT !.file = WavFile(16, run.workingBuffer, options.dither, noise),
              !.stages = Append(@, "encode")]

\* exportToMP3 after its processing: the try block returns success: true,
\* the catch (import('lamejs') or the encoder failing) success: false.
exportToMP3_return(options, run, lame, noise) ==
  /\ held' = run.caller
  /\ exported' = IF lame
                 THEN Export("exportToMP3", held, options,
                             Mp3Input(run, options, noise), TRUE, NoValidation)
                 ELSE Export("exportToMP3", held, options, run, FALSE,
                             NoValidation)
  /\ exports' = exports + 1

\* await engine.exportToMP3(held, filename, 320, options)
exportToMP3(options, lame, noise) ==
  /\ ~held.isNull /\ exports < MaxExports
  /\ exportToMP3_return(options, exportToMP3_run(held, options), lame, noise)

(***************************************************************************)
(* AudioAnalysis.analyze on the buffers a caller may hand it               *)
(***************************************************************************)
\* The last analyze call: the buffer it was given, what it threw and the
\* record it returned.
VARIABLES analysed

\* Buffers no audio can be in: no frames, or no channels.
InvalidBuffers ==
  { [isNull |-> FALSE, numberOfChannels |-> n, length |-> 0,
     sampleRate |-> sr, data |-> [ch \in 1 .. n |-> << >>]] :
      n \in 0 .. 2, sr \in SampleRates }
  \cup { [isNull |-> FALSE, numberOfChannels |-> 0, length |-> BufLen,
          sampleRate |-> sr, data |-> << >>] : sr \in SampleRates }

\* analyser.frequencyBinCount for fftSize 2048.
frequencyBinCount == 1024

\* analyser.getByteFrequencyData(dataArray): the source that was connected to
\* the analyser is never started and nothing is rendered before the read, so
\* every bin holds 0.
getByteFrequencyData == [i \in 1 .. frequencyBinCount |-> 0]

\* dataArray[i] / 255 if the frequency (i - 1) * binWidth of bin i, with
\* binWidth = (sampleRate / 2) / frequencyBinCount, lies in [from, to).
BinInBand(dataArray, i, from, to) ==
  IF /\ (i - 1) * SampleRate >= from * 2 * frequencyBinCount
     /\ (i - 1) * SampleRate < to * 2 * frequencyBinCount
  THEN (dataArray[i] * Scale) \div 255 ELSE 0

\* The sum of the loop over the bins lo .. hi, by halves.
RECURSIVE BandSum(_, _, _, _, _)
BandSum(dataArray, lo, hi, from, to) ==
  IF lo > hi THEN 0
  ELSE IF lo = hi THEN BinInBand(dataArray, lo, from, to)
  ELSE BandSum(dataArray, lo, (lo + hi) \div 2, from, to)
       + BandSum(dataArray, (lo + hi) \div 2 + 1, hi, from, to)

\* total > 0 ? part / total : 0.33
BalanceFraction(part, total) ==
  IF total > 0 THEN (part * Scale) \div total ELSE (33 * Scale) \div 100

SpectralBalance(low, mid, high) ==
  [low  |-> BalanceFraction(low, low + mid + high),
   mid  |-> BalanceFraction(mid, low + mid + high),
   high |-> BalanceFraction(high, low + mid + high)]

\* calculateSpectralBalance(audioBuffer): below 250 Hz, below 4 kHz, the rest.
calculateSpectralBalance(dataArray) ==
  SpectralBalance(BandSum(dataArray, 1, Len(dataArray), 0, 250),
                  BandSum(dataArray, 1, Len(dataArray), 250, 4000),
                  BandSum(dataArray, 1, Len(dataArray), 4000, SampleRate))

\* Math.sqrt of a fixed-point number: the largest r with r * r <= x * Scale,
\* by bisection of lo .. hi.
RECURSIVE Bisect(_, _, _)
Bisect(n, lo, hi) ==
  IF lo >= hi THEN lo
  ELSE IF ((lo + hi + 1) \div 2) * ((lo + hi + 1) \div 2) <= n
       THEN Bisect(n, (lo + hi + 1) \div 2, hi)
       ELSE Bisect(n, lo, (lo + hi + 1) \div 2 - 1)

Sqrt(x) == Bisect(x * Scale, 0, 40000)

\* The sums of calculateStereoCorrelation over frames i.. of left and right.
RECURSIVE SumOf(_, _)
SumOf(samples, i) ==
  IF i > Len(samples) THEN 0 ELSE samples[i] + SumOf(samples, i + 1)

RECURSIVE SumProduct(_, _, _)
SumProduct(left, right, i) ==
  IF i > Min(Len(left), Len(right)) THEN 0
  ELSE Mul(left[i], right[i]) + SumProduct(left, right, i + 1)

\* length * sumXY - sumX * sumY
Covariance(length, sumXY, sumX, sumY) == length * sumXY - Mul(sumX, sumY)

\* A quotient whose divisor may be 0: 0 / 0 is NaN, anything else over 0 is
\* an infinity.
Infinity == 0 - NegInfinity

Quotient(a, b) ==
  IF b = 0 THEN (IF a = 0 THEN NoNumber ELSE IF a > 0 THEN Infinity ELSE NegInfinity)
  ELSE Div0(a * Scale, b)

\* correlation > 0.3, false for NoNumber
MonoSafe(correlation) ==
  correlation # NoNumber /\ correlation > (3 * Scale) \div 10

\* { correlation: isNaN(correlation) ? 1.0 : correlation, monoSafe }
StereoCorrelation(correlation) ==
  [correlation |-> IF correlation = NoNumber THEN Scale ELSE correlation,
   monoSafe    |-> MonoSafe(correlation)]

\* The root of the product of the two variances is taken as the product of
\* their roots, which keeps the numbers within 32 bits.
Correlation(length, left, right) ==
  Quotient(Covariance(length, SumProduct(left, right, 1),
                      SumOf(left, 1), SumOf(right, 1)),
           Mul(Sqrt(Covariance(length, SumProduct(left, left, 1),
                               SumOf(left, 1), SumOf(left, 1))),
               Sqrt(Covariance(length, SumProduct(right, right, 1),
                               SumOf(right, 1), SumOf(right, 1)))))

\* calculateStereoCorrelation(audioBuffer), which analyze calls for more than
\* one channel and answers itself for one.
calculateStereoCorrelation(audioBuffer) ==
  IF audioBuffer.numberOfChannels < 2
  THEN [correlation |-> Scale, monoSafe |-> TRUE]
  ELSE StereoCorrelation(
         Correlation(Min(Len(audioBuffer.data[1]), Len(audioBuffer.data[2])),
                     audioBuffer.data[1], audioBuffer.data[2]))

\* The balance analyze gets from the analyser it has just created.
analysedBalance == calculateSpectralBalance(getByteFrequencyData)

NoBalance == [low |-> 0, mid |-> 0, high |-> 0]

NoCorrelation == [correlation |-> 0, monoSafe |-> FALSE]

Analysed(given, threw, record, spectralBalance, stereoCorrelation) ==
  [given |-> given, threw |-> threw, record |-> record,
   spectralBalance |-> spectralBalance,
   stereoCorrelation |-> stereoCorrelation]

NotAnalysed == Analysed(NullBuffer, "no", NullAnalysis, NoBalance, NoCorrelation)

\* analyze, lines 17-67: getChannelData(0) throws on a buffer without
\* channels; nothing else looks at the shape of the buffer.  On no frames
\* calculateLUFS takes the rms > 0 branch's other side (NaN > 0 is false),
\* calculateShortTermLUFS reduces an empty list and calculateDynamicRange
\* has peak 0: none of them throws.
AudioAnalysis_analyze(self, audioBuffer) ==
  IF audioBuffer.numberOfChannels = 0
  THEN [self |-> self,
        call |-> Analysed(audioBuffer, "IndexSizeError", NullAnalysis,
                          NoBalance, NoCorrelation)]
  ELSE [self |-> [self EXCEPT !.analysisData = analyze(audioBuffer)],
        call |-> Analysed(audioBuffer, "no", analyze(audioBuffer),
                          analysedBalance,
                          calculateStereoCorrelation(audioBuffer))]

analyze_after(made) ==
  /\ analysisEngine' = made.self
  /\ analysed' = made.call

\* analysisEngine.analyze(audioBuffer), awaited
analyze_call(audioBuffer) ==
  analyze_after(AudioAnalysis_analyze(analysisEngine, audioBuffer))

(***************************************************************************)
(* TruePeakLimiter (dspModules.js)                                         *)
(***************************************************************************)
\* new TruePeakLimiter(ceiling, release, sampleRate)
TruePeakLimiter(ceiling, release) ==
  [ceiling |-> ceiling, rel |-> release, gainReduction |-> Scale]

\* The largest of |sample| and |sample * (1 + sin(i pi / 4) * 0.1)| for
\* i = 1 .. 3, which is the one of i = 2.
OversampledPeak(sample) == (Abs(sample) * 110) \div 100

TruePeakLimiter_gainReduction(st, peakDB) ==
  IF peakDB > st.ceiling
  THEN Min(st.gainReduction, Lin(st.ceiling - peakDB))
  ELSE Min(Scale, Scale + Mul(st.gainReduction - Scale, ExpCoeff(st.rel)))

TruePeakLimiter_step(st, sample, gain) ==
  [st |-> [st EXCEPT !.gainReduction = gain], out |-> Mul(sample, gain)]

\* TruePeakLimiter.process(sample)
TruePeakLimiter_process(st, sample) ==
  TruePeakLimiter_step(st, sample,
    TruePeakLimiter_gainReduction(st, ToDb(OversampledPeak(sample))))

(***************************************************************************)
(* AdvancedPitchCorrector once a pitch is detected.  Deviations and        *)
(* corrections are in hundredths of a cent, readIndex is a fixed-point     *)
(* position, delayLine tells whether the field is defined and delayData    *)
(* holds the writes that left a non-zero entry, as pitchBuffer.  What      *)
(* detectPitch returns for the ring is an input of processSample: NoPitch  *)
(* for null or a confidence of at most 0.3, else the deviation.            *)
(***************************************************************************)
delayLineLength == 2048

NoPitch == 0 - 77777

\* ring[index], 0 where no write left a non-zero entry
ReadRing(ring, index) ==
  IF \E j \in DOMAIN ring : ring[j][1] = index
  THEN ring[CHOOSE j \in DOMAIN ring : ring[j][1] = index][2]
  ELSE 0

\* pitchBuffer[bufferIndex] = sample; bufferIndex = (bufferIndex + 1) % size
Buffered(st, sample) ==
  [st EXCEPT !.pitchBuffer = PitchBufferWrite(st.pitchBuffer, st.bufferIndex, sample),
             !.bufferIndex = (st.bufferIndex + 1) % pitchBufferSize]

\* pitchHistory.push(deviation), shift() beyond historySize
Pushed(pitchHistory, deviation) ==
  IF Len(pitchHistory) >= historySize
  THEN Append(Tail(pitchHistory), deviation)
  ELSE Append(pitchHistory, deviation)

WithHistory(st, pitchHistory) ==
  [st EXCEPT !.pitchHistory = pitchHistory,
             !.smoothedPitch = Div0(SumOf(pitchHistory, 1), Len(pitchHistory))]

\* The detection every hopSize samples.  detectPitch returns null while the
\* window, the upper windowSize entries of the ring, is silent.
Detected(st, pitchInfo) ==
  IF /\ st.bufferIndex % hopSize = 0
     /\ pitchInfo # NoPitch
     /\ \E j \in DOMAIN st.pitchBuffer :
          st.pitchBuffer[j][1] >= pitchBufferSize - windowSize
  THEN WithHistory(st, Pushed(st.pitchHistory, pitchInfo))
  ELSE st

\* absDeviation * Math.min(1, (absDeviation - threshold) / 50) * direction
correctionNeeded(st, absDeviation) ==
  (IF st.smoothedPitch > 0 THEN -1 ELSE 1)
  * Div0(absDeviation * Min(100, (absDeviation - st.thr * 100) \div 50), 100)

\* The correction moves to what is needed above the threshold, and decays
\* under it.
Corrected(st) ==
  IF Abs(st.smoothedPitch) > st.thr * 100
  THEN [st EXCEPT !.smoothCorrection =
          Div0(st.smoothCorrection * (10 - st.retuneSpeed)
               + correctionNeeded(st, Abs(st.smoothedPitch)) * st.retuneSpeed, 10)]
  ELSE [st EXCEPT !.smoothCorrection = Div0(st.smoothCorrection * 95, 100)]

\* Math.pow(2, cents / 1200): 1 + x + x^2 / 2 with x = cents ln 2 / 1200.
Pow2Cents(c) ==
  Scale + Div0(c * 57762, 1000000)
  + (Div0(c * 57762, 1000000) * Div0(c * 57762, 1000000)) \div (2 * Scale)

\* if (!this.delayLine) { ... }
WithDelayLine(st) ==
  IF ~st.delayLine
  THEN [st EXCEPT !.delayLine = TRUE, !.delayData = << >>, !.delayIndex = 0,
                  !.readIndex = 512 * Scale, !.lastSample = 0]
  ELSE st

\* delayLine[delayIndex] = sample; delayIndex = (delayIndex + 1) % length
Delayed(st, sample) ==
  [st EXCEPT !.delayData = PitchBufferWrite(st.delayData, st.delayIndex, sample),
             !.delayIndex = (st.delayIndex + 1) % delayLineLength]

\* a0 f^3 + a1 f^2 + a2 f + a3 with a0 = y3 - y2 - y0 + y1,
\* a1 = y0 - y1 - a0, a2 = y2 - y0, a3 = y1
Cubic(y0, y1, y2, y3, f) ==
  Mul(Mul(Mul(y3 - y2 - y0 + y1, f), f), f)
  + Mul(Mul(y0 - y1 - (y3 - y2 - y0 + y1), f), f)
  + Mul(y2 - y0, f) + y1

\* The sample read at the position readIndex, between its neighbours.
shiftedSample(delayLine, readPosInt, readPosFrac) ==
  Cubic(ReadRing(delayLine, (readPosInt - 1 + delayLineLength) % delayLineLength),
        ReadRing(delayLine, readPosInt % delayLineLength),
        ReadRing(delayLine, (readPosInt + 1) % delayLineLength),
        ReadRing(delayLine, (readPosInt + 2) % delayLineLength),
        readPosFrac)

\* readIndex += correctedRatio, kept in [0, length)
Advanced(readIndex) ==
  IF readIndex >= delayLineLength * Scale
  THEN readIndex - delayLineLength * Scale
  ELSE IF readIndex < 0 THEN readIndex + delayLineLength * Scale
  ELSE readIndex

\* A mix that gives the original more as the correction grows.
formantMix_rising(smoothCorrection) ==
  Min(8000, 5000 + (Abs(smoothCorrection) * 3) \div 10)

\* Math.max(0.2, 0.5 - (Math.abs(smoothCorrection) / 100) * 0.3): the share
\* of the sample that was passed in.
formantMix(smoothCorrection) ==
  Max(2000, 5000 - (Abs(smoothCorrection) * 3) \div 10)

\* The weights of the sample and of the shifted sample in the output.
MixWeights(smoothCorrection) ==
  [original |-> formantMix(smoothCorrection),
   shifted  |-> Scale - formantMix(smoothCorrection)]

Mixed(st, sample, shifted, weights) ==
  [st  |-> [st EXCEPT
              !.readIndex = Advanced(st.readIndex
                                     + Div0(Scale * Scale,
                                            Pow2Cents(-st.smoothCorrection))),
              !.lastSample = Mul(sample, weights.original)
                             + Mul(shifted, weights.shifted)],
   out |-> Mul(sample, weights.original) + Mul(shifted, weights.shifted)]

applyPitchShift_written(st, sample) ==
  Mixed(st, sample,
        shiftedSample(st.delayData, st.readIndex \div Scale, st.readIndex % Scale),
        MixWeights(st.smoothCorrection))

\* applyPitchShift(sample, ratio) with ratio = 2^(-smoothCorrection / 1200)
applyPitchShift(st, sample) ==
  applyPitchShift_written(Delayed(WithDelayLine(st), sample), sample)

\* The end of processSample: the shifted mix for a correction of more than
\* a cent, else the sample.
Shifted(st, sample) ==
  IF Abs(st.smoothCorrection) > 100
  THEN applyPitchShift(st, sample)
  ELSE [st |-> st, out |-> sample]

\* processSample(sample), with what detectPitch returns
processSample(st, sample, pitchInfo) ==
  Shifted(Corrected(Detected(Buffered(st, sample), pitchInfo)), sample)

\* The corrector a stream is run through, the last call made on it with
\* the sample it returned, and the samples processed so far.
VARIABLES corrector, pitched, fed

\* Samples run through one corrector.
MaxSamples == 3

Pitched(op, out) == [op |-> op, out |-> out]

\* A corrector in the middle of a stream: the window of the ring holds
\* signal and the next sample completes a hop.
MidStream ==
  [AdvancedPitchCorrector(25, 2) EXCEPT
     !.pitchBuffer = << <<1300, Scale>>, <<1400, -(Scale \div 2)>> >>,
     !.bufferIndex = 6 * hopSize - 1]

CorrectorStates == {AdvancedPitchCorrector(25, 2), MidStream}

\* What detectPitch may return: nothing, or a deviation from the nearest
\* semitone in hundredths of a cent.
PitchInfos == {NoPitch, 1000, -4000, 6000}

processSample_after(made) ==
  /\ corrector' = made.st
  /\ pitched' = Pitched("processSample", made.out)
  /\ fed' = fed + 1

\* pitchCorrector.processSample(sample)
processSample_call(sample, pitchInfo) ==
  /\ fed < MaxSamples
  /\ processSample_after(processSample(corrector, sample, pitchInfo))

\* pitchCorrector.reset()
reset_call ==
  /\ corrector' = AdvancedPitchCorrector_reset(corrector)
  /\ pitched' = Pitched("reset", 0)
  /\ UNCHANGED fed

(***************************************************************************)
(* Specifications                                                          *)
(***************************************************************************)
rtVars == <<processor, thread, cb, nextId, blocks>>

peVars == <<presetEngine, call>>

engVars == <<engine, analysisEngine, ret>>

expVars == <<held, exported, exports>>

anVars == <<analysed>>

pitchVars == <<corrector, pitched, fed>>

vars == <<rtVars, peVars, engVars, expVars, anVars, pitchVars>>

\* The engine and its parts as their constructors leave them.
Constructed ==
  /\ processor = RealtimeProcessor
  /\ thread = [op |-> "idle", name |-> NullName, threw |-> FALSE]
  /\ cb = NoCallback
  /\ nextId = 0
  /\ blocks = 0
  /\ presetEngine = PresetEngine
  /\ call = NoCall
  /\ engine = TrapMasterProEngine
  /\ analysisEngine = AudioAnalysis
  /\ ret = Returned("none", NullName, TRUE)
  /\ held = NullBuffer
  /\ exported = NoExport
  /\ exports = 0
  /\ analysed = NotAnalysed

\* A new engine and a new pitch corrector.
Init ==
  /\ Constructed
  /\ corrector = AdvancedPitchCorrector(25, 2)
  /\ pitched = Pitched("none", 0)
  /\ fed = 0

\* A pitch corrector at the start or in the middle of a stream.
InitPitch ==
  /\ Constructed
  /\ corrector \in CorrectorStates
  /\ pitched = Pitched("none", 0)
  /\ fed = 0

\* The real-time processor under setPreset calls and audio callbacks.
NextRT ==
  \/ \E presetName \in CallerNames :
       setPreset_name(presetName) /\ UNCHANGED <<peVars, engVars, expVars, anVars, pitchVars>>
  \/ setPreset_chain /\ UNCHANGED <<peVars, engVars, expVars, anVars, pitchVars>>
  \/ \E e \in InputBuffers :
       processAudio_begin(e) /\ UNCHANGED <<peVars, engVars, expVars, anVars, pitchVars>>
  \/ processAudio_frame /\ UNCHANGED <<peVars, engVars, expVars, anVars, pitchVars>>

SpecRT == Init /\ [][NextRT]_vars

\* The preset engine on its own.
NextPreset ==
  \/ /\ \E analysisData \in MeasurementRecords : setAnalysis(analysisData)
     /\ UNCHANGED <<rtVars, engVars, expVars, anVars, pitchVars>>
  \/ /\ \E audioBuffer \in Buffers, presetName \in CallerNames :
          process(audioBuffer, presetName)
     /\ UNCHANGED <<rtVars, engVars, expVars, anVars, pitchVars>>

SpecPreset == Init /\ [][NextPreset]_vars

\* The engine under the calls of its user.
NextEngine ==
  \/ /\ \E ok \in BOOLEAN : initialize(ok)
     /\ UNCHANGED <<rtVars, expVars, anVars, pitchVars>>
  \/ /\ \E audioBuffer \in Files, outcome \in LoadOutcomes :
          loadAudioFile(audioBuffer, outcome)
     /\ UNCHANGED <<rtVars, expVars, anVars, pitchVars>>
  \/ /\ \E presetName \in EngineNames : processPreset(presetName)
     /\ UNCHANGED <<rtVars, expVars, anVars, pitchVars>>
  \/ /\ \E presetName \in EngineNames : playRealtime(presetName)
     /\ UNCHANGED <<thread, cb, blocks, presetEngine, analysisEngine, expVars, anVars, pitchVars>>
  \/ /\ \E presetName \in EngineNames : switchPresetRealtime(presetName)
     /\ UNCHANGED <<thread, cb, blocks, presetEngine, analysisEngine, expVars, anVars, pitchVars>>

SpecEngine == Init /\ [][NextEngine]_vars

\* The exports of a caller that holds a buffer.
NextExport ==
  \/ /\ \E audioBuffer \in ExportBuffers : take(audioBuffer)
     /\ UNCHANGED <<rtVars, peVars, engVars, anVars, pitchVars>>
  \/ /\ \E options \in WavOptions, noise \in Noise : exportToWAV(options, noise)
     /\ UNCHANGED <<rtVars, peVars, engVars, anVars, pitchVars>>
  \/ /\ \E options \in AppleOptions, noise \in Noise :
          exportToAppleLossless(options, noise)
     /\ UNCHANGED <<rtVars, peVars, engVars, anVars, pitchVars>>
  \/ /\ \E options \in Mp3Options, lame \in BOOLEAN, noise \in Noise :
          exportToMP3(options, lame, noise)
     /\ UNCHANGED <<rtVars, peVars, engVars, anVars, pitchVars>>

SpecExport == Init /\ [][NextExport]_vars

\* The analysis engine under the analyze calls of its user.
NextAnalysis ==
  /\ \E audioBuffer \in Buffers \cup InvalidBuffers : analyze_call(audioBuffer)
  /\ UNCHANGED <<rtVars, peVars, engine, ret, expVars, pitchVars>>

SpecAnalysis == Init /\ [][NextAnalysis]_vars

\* A pitch corrector under the calls of a chain.
NextPitch ==
  \/ /\ \E sample \in SampleValues, pitchInfo \in PitchInfos :
          processSample_call(sample, pitchInfo)
     /\ UNCHANGED <<rtVars, peVars, engVars, expVars, anVars>>
  \/ reset_call /\ UNCHANGED <<rtVars, peVars, engVars, expVars, anVars>>

SpecPitch == InitPitch /\ [][NextPitch]_vars

(***************************************************************************)
(* Properties of the real-time processor                                   *)
(***************************************************************************)
\* A stage as its constructor leaves it.
StageInitial(st) ==
  CASE st.k \in {"DynamicEQ", "AdaptiveCompressor"} -> st.envelope = 0
    [] st.k = "Limiter" -> st.gainReduction = Scale
    [] st.k = "MonoBassProcessor" -> st.leftLP = 0 /\ st.rightLP = 0
    [] st.k = "AdvancedPitchCorrector" ->
         /\ st.pitchBuffer = << >> /\ st.bufferIndex = 0
         /\ st.pitchHistory = << >> /\ st.smoothedPitch = 0
         /\ st.smoothCorrection = 0
    [] OTHER -> TRUE

\* The pair (currentPreset, presetProcessor) is one that the constructor or
\* a completed setPreset leaves: the chain is the one built for the name.
PairConsistent(self) ==
  IF self.currentPreset = NullName THEN self.presetProcessor = Undefined
  ELSE IF self.currentPreset \in RealtimeFactories
       THEN /\ self.presetProcessor.kind = "closure"
            /\ self.presetProcessor.builtFor = self.currentPreset
       ELSE self.presetProcessor = Null

\* C1: under every interleaving of setPreset calls and audio callbacks, a
\* callback that is running sees presetProcessor being the chain built for
\* currentPreset, and from one step of the callback to the next neither the
\* name nor the identity of the chain changes.
C1_CallbackSeesOneChain ==
  /\ [](thread.op = "processAudio" => PairConsistent(processor))
  /\ [][thread.op = "processAudio" =>
          /\ processor'.currentPreset = processor.currentPreset
          /\ processor'.presetProcessor.id = processor.presetProcessor.id
          /\ processor'.presetProcessor.kind = processor.presetProcessor.kind
          /\ cb'.chain = processor'.presetProcessor.id
          /\ cb'.preset = processor'.currentPreset]_vars

\* A callback in mid-block on the chain of a later setPreset, after an
\* earlier chain was built and replaced.
C1_Witness ==
  /\ thread.op = "processAudio" /\ cb.i >= 1 /\ cb.branch = "chain"
  /\ processor.presetProcessor.id >= 1

\* C2: while no setPreset has been made, every callback that has ended has
\* returned with its input copied to its output frame by frame, and no step
\* of a callback creates or changes a stage.
C2_EveryCallbackPassesThrough ==
  /\ [](processor = RealtimeProcessor /\ cb.pc \notin {"none", "running"} =>
          /\ cb.pc = "returned"
          /\ cb.outputLeft = cb.inputLeft /\ cb.outputRight = cb.inputRight)
  /\ [][(processor = RealtimeProcessor /\ cb' # cb) =>
          (processor' = processor /\ nextId' = nextId)]_vars

\* C3: every setPreset of a catalog name, the active name included, leaves a
\* chain whose stages are all in their initial state and whose identity was
\* never handed out before, so it shares no stage instance with the chain it
\* replaces.
C3_FreshChainOnEverySetPreset ==
  [][(thread.op = "setPreset" /\ thread.name \in getPresetNames) =>
       /\ processor'.presetProcessor.kind = "closure"
       /\ processor'.presetProcessor.builtFor = thread.name
       /\ processor'.presetProcessor.id >= nextId
       /\ processor'.presetProcessor.id # processor.presetProcessor.id
       /\ \A j \in 1 .. Len(processor'.presetProcessor.stages) :
            StageInitial(processor'.presetProcessor.stages[j])]_vars

\* The active name was set again after its chain had processed a block: the
\* chain in place is a later one than the one the callback ran, and clean.
C3_Witness ==
  /\ thread.op = "idle" /\ cb.pc = "returned" /\ cb.branch = "chain"
  /\ cb.preset = processor.currentPreset
  /\ cb.chain < processor.presetProcessor.id
  /\ blocks = 0

\* C4: no exception leaves the audio callback.
C4_NoExceptionEscapesCallback == cb.pc # "threw"

\* C5: a setPreset with a name outside the catalog assigns nothing on any of
\* its steps and ends by raising an error.
C5_UnknownNameRejected ==
  /\ [][(thread'.op = "setPreset" /\ thread'.name \notin getPresetNames) =>
          processor' = processor]_vars
  /\ [][(thread.op = "setPreset" /\ thread.name \notin getPresetNames) =>
          (processor' = processor /\ thread'.threw)]_vars

(***************************************************************************)
(* Properties of the preset engine                                         *)
(***************************************************************************)
\* A call of process has been made since the record was set.
Called == call.threw # "none"

Shape(audioBuffer) ==
  <<audioBuffer.numberOfChannels, audioBuffer.length, audioBuffer.sampleRate>>

NamedCeiling(presetName) ==
  CASE presetName = "Maximum Impact"  -> 99
    [] presetName = "Festival Banger" -> 98
    [] presetName = "Lo-Fi Character" -> 92
    [] OTHER                          -> 95

C7_PlayRealtimeStarts ==
  ( /\ ret.op = "playRealtime" /\ ret.name \in getPresetNames
    /\ engine.audioContext
    /\ ~engine.originalBuffer.isNull /\ ~engine.analysisData.isNull )
  => /\ ret.threw = "no"
     /\ engine.currentSource
     /\ processor.currentPreset = ret.name

\* C10: whenever a chain has processed the buffer processPreset gave it, the
\* record it was handed is the one analyze computes from that buffer.
C10_RecordBelongsToBuffer ==
  (call.threw = "no" /\ ret.op = "processPreset") =>
     /\ call.given = engine.originalBuffer
     /\ call.analysisData = analyze(call.given)

(***************************************************************************)
(* Real-time chains against offline chains                                 *)
(***************************************************************************)
\* The chain in place is as its factory built it: no frame has gone through.
ChainAsBuilt(self) ==
  /\ self.presetProcessor.kind = "closure"
  /\ self.presetProcessor.stages = RealtimeStages(self.presetProcessor.builtFor)

\* C11: the chain that setPreset builds for a catalog name is the stage
\* sequence of the offline preset of that name, same kinds in the same order
\* with the same parameters, as the offline preset has them after adapting
\* to some measurement record.
C11_RealtimeChainIsOfflineChain ==
  ChainAsBuilt(processor) =>
    \E analysisData \in MeasurementRecords :
      processor.presetProcessor.stages
        = OfflineStages(processor.presetProcessor.builtFor, analysisData)

\* The chains the channels of which are said not to affect each other.
SeparateChannelChains ==
  { "De-Harsh", "Vintage Warmth", "Modern Bright", "Lo-Fi Character",
    "Neo Soul", "Vocal Forward", "Smooth Mids", "Dynamic & Clear" }

\* The stereo buffers with the left channel and the shape of audioBuffer.
SameLeft(audioBuffer) ==
  { other \in Buffers :
      /\ other.numberOfChannels = 2
      /\ other.sampleRate = audioBuffer.sampleRate
      /\ other.data[1] = audioBuffer.data[1] }

\* C12: for a chain without mid/side, mono-bass or pitch stage, a process of
\* a stereo buffer returns the left channel that a process of any other
\* stereo buffer with the same left channel returns under the same record.
C12_LeftOutputIgnoresRight ==
  ( /\ call.threw = "no" /\ call.name \in SeparateChannelChains
    /\ call.given.numberOfChannels = 2 )
  => \A other \in SameLeft(call.given) :
       PresetEngine_process(presetEngine, other, call.name).result.data[1]
         = call.result.data[1]

(***************************************************************************)
(* Properties of the exports                                               *)
(***************************************************************************)
\* The stages an exportToWAV with these options is asked for, in the order
\* conversion, normalization, true-peak limiting, encoding.
RequestedStages(audioBuffer, options) ==
  (IF options.sampleRate # NoNumber /\ options.sampleRate # audioBuffer.sampleRate
   THEN << "convert" >> ELSE << >>)
  \o (IF options.normalize /\ options.targetLUFS # NoNumber
      THEN << "normalize" >> ELSE << >>)
  \o (IF options.truePeakCeiling # NoNumber THEN << "limit" >> ELSE << >>)
  \o << "encode" >>

\* C13: an exportToWAV with a bit depth of 16, 24 or 32 and any options runs
\* the stages it was asked for, in order, and no others, and returns an
\* object with success = true.
C13_ExportToWAVCompletes ==
  exported.op = "exportToWAV" =>
    /\ exported.threw = "no" /\ exported.success
    /\ exported.stages = RequestedStages(exported.given, exported.options)

\* C14: after an exportToWAV or an exportToMP3 the buffer the caller passed
\* holds the samples it held before the call.
C14_ExportLeavesInputAlone ==
  exported.op \in {"exportToWAV", "exportToMP3"} =>
    exported.caller = exported.given

\* The ceilings the limiter is tried with, in cdB.
Ceilings == {-50, -100, -300}

\* Some sample of the buffer lies above the ceiling.
AboveCeiling(audioBuffer, ceiling) ==
  PeakDb(PeakOfChannels(audioBuffer.data, 1)) > ceiling

\* The estimated true peak of a buffer, in cdB.
EstimatedTruePeak(audioBuffer) == measurePeaks(audioBuffer).truePeak

\* The buffer exportToMP3 hands to its limiting loop.
Mp3LimiterInput(audioBuffer, options) ==
  Normalized(Begin(audioBuffer), options.normalize, options.targetLUFS).workingBuffer

\* C15: when a buffer with a sample above the ceiling has gone through the
\* limiting loop, the estimated true peak of what comes out is at most the
\* ceiling plus 0.05 dB: for the buffer at hand under each ceiling, and for
\* the buffer an exportToMP3 has limited to -1 dB.
C15_TruePeakWithinCeiling ==
  /\ ~held.isNull =>
       \A ceiling \in Ceilings :
         AboveCeiling(held, ceiling) =>
           EstimatedTruePeak(Limited(held, ceiling)) <= ceiling + 5
  /\ ( /\ exported.op = "exportToMP3"
       /\ AboveCeiling(Mp3LimiterInput(exported.given, exported.options),
                       Mp3Ceiling) )
     => EstimatedTruePeak(exported.workingBuffer) <= Mp3Ceiling + 5

\* An exportToMP3 limited a stereo buffer with a sample at full scale: the
\* limiter pulled the peak down, to within 1 dB under the ceiling.
C15_Witness ==
  /\ exported.op = "exportToMP3" /\ exported.given.numberOfChannels = 2
  /\ ~exported.options.normalize
  /\ PeakOfChannels(exported.given.data, 1) = Scale
  /\ EstimatedTruePeak(exported.workingBuffer) <= Mp3Ceiling + 5
  /\ EstimatedTruePeak(exported.workingBuffer) > Mp3Ceiling - 100

\* The loudness targets normalization is tried with, in cdB.
Targets == {-1400, -900}

\* C16: for a buffer that is not silent and a target, the loudness of the
\* buffer normalized twice differs from the loudness of the buffer
\* normalized once by less than 0.1 dB, in the normalizer's own measure.
C16_NormalizeIdempotent ==
  (~held.isNull /\ PeakOfChannels(held.data, 1) > 0) =>
    \A targetLUFS \in Targets :
      Abs(currentLUFS(LosslessNormalizer_normalize(targetLUFS,
             LosslessNormalizer_normalize(targetLUFS, held)))
          - currentLUFS(LosslessNormalizer_normalize(targetLUFS, held))) < 10

\* The samples of a buffer frame by frame, clamped to [-1, 1].
ClampedFrames(audioBuffer) ==
  [i \in 1 .. audioBuffer.length |->
     [ch \in 1 .. audioBuffer.numberOfChannels |->
        Clamp(audioBuffer.data[ch][i])]]

\* C17: an exportToWAV writes a file whose samples were dithered exactly
\* when the bit depth is 16 or 24, and a 32-bit export writes the samples of
\* the working buffer as they are.
C17_DitherIffNarrowing ==
  exported.op = "exportToWAV" =>
    /\ ~exported.file.isNull
    /\ exported.file.dithered <=> exported.options.bitDepth \in {16, 24}
    /\ exported.options.bitDepth = 32 =>
         exported.file.samples = ClampedFrames(exported.workingBuffer)

\* C18: the validation an exportToAppleLossless returns describes the audio
\* that was exported: 48000 Hz, 24 bit, and the peak, true peak and loudness
\* of the buffer after conversion, normalization and limiting.
C18_ValidationDescribesExport ==
  exported.op = "exportToAppleLossless" =>
    /\ exported.threw = "no" /\ ~exported.validation.isNull
    /\ exported.validation.sampleRate = 48000
    /\ exported.validation.bitDepth = "24"
    /\ exported.validation.peak = measurePeaks(exported.workingBuffer).peak
    /\ exported.validation.truePeak = EstimatedTruePeak(exported.workingBuffer)
    /\ exported.validation.lufs = measureLUFS(exported.workingBuffer)

\* A file whose sizes agree: the RIFF size is the length less 8, the data
\* chunk ends where the file ends, block align and byte rate follow from
\* the format.
SizeConsistent(file) ==
  /\ file.riffSize = file.byteLength - 8
  /\ file.dataOffset + 8 + file.dataSize = file.byteLength
  /\ file.blockAlign = file.channels * (file.bitsPerSample \div 8)
  /\ file.byteRate = file.sampleRate * file.blockAlign

\* C19: the file that the writer of exportToWAV lays out for the working
\* buffer of an export, at the bit depth asked for, is size-consistent.
C19_ContainerSizeConsistent ==
  exported.op = "exportToWAV" =>
    SizeConsistent(WavFile(exported.options.bitDepth, exported.workingBuffer,
                           exported.options.dither, 0))


(***************************************************************************)
(* Properties of the analysis                                              *)
(***************************************************************************)
\* C20: analyze fails fast on an invalid buffer: given a buffer of no frames
\* or of no channels it throws, returns no measurement record and leaves the
\* record the analysis engine holds as it was.
C20_AnalyzeFailsFastOnInvalid ==
  [][analysed'.given \in InvalidBuffers
       => /\ analysed'.threw # "no"
          /\ analysed'.record.isNull
          /\ analysisEngine' = analysisEngine]_vars

\* C21: in every record analyze returns, each of the three spectral balance
\* fractions lies in [0, 1] and the three sum to 1 (to within the rounding
\* of three quotients).
C21_BalanceSumsToOne ==
  analysed.given \in Buffers /\ analysed.threw = "no" =>
    /\ \A f \in {analysed.spectralBalance.low, analysed.spectralBalance.mid,
                 analysed.spectralBalance.high} : f >= 0 /\ f <= Scale
    /\ analysed.record.high = analysed.spectralBalance.high
    /\ Abs(analysed.spectralBalance.low + analysed.spectralBalance.mid
           + analysed.spectralBalance.high - Scale) <= 3

\* C28: in every record analyze returns, monoSafe is true exactly when the
\* correlation of the same record is greater than 0.3, and a mono buffer
\* gets correlation 1.0 and monoSafe true.
C28_MonoSafeIffCorrelated ==
  analysed.given \in Buffers /\ analysed.threw = "no" =>
    /\ analysed.stereoCorrelation.monoSafe
         <=> analysed.stereoCorrelation.correlation > (3 * Scale) \div 10
    /\ analysed.given.numberOfChannels = 1 =>
         analysed.stereoCorrelation = [correlation |-> Scale, monoSafe |-> TRUE]

(***************************************************************************)
(* Properties of the engine's offline processing                           *)
(***************************************************************************)
\* A processPreset call that failed: it threw, or it returned success: false.
FailedProcessPreset(r) ==
  r.op = "processPreset" /\ (r.threw # "no" \/ ~r.success)

\* C22: a processPreset that fails leaves currentPreset and processedBuffer
\* as they were, so that after every step a processedBuffer that is not null
\* is what the preset named by currentPreset makes of originalBuffer.
C22_FailedProcessPresetChangesNothing ==
  [][/\ FailedProcessPreset(ret')
          => /\ engine'.currentPreset = engine.currentPreset
             /\ engine'.processedBuffer = engine.processedBuffer
     /\ ~engine'.processedBuffer.isNull
          => engine'.processedBuffer
               = PresetEngine_process(presetEngine', engine'.originalBuffer,
                                      engine'.currentPreset).result]_vars

(***************************************************************************)
(* Properties of the limiters                                              *)
(***************************************************************************)
\* The samples of a buffer in the order one limiter instance gets them:
\* channel after channel.
RECURSIVE Fed(_, _)
Fed(data, ch) ==
  IF ch > Len(data) THEN << >> ELSE data[ch] \o Fed(data, ch + 1)

\* The limiter after process(sample), and whether process took the sample
\* to be over the ceiling.
LimiterAfter(kind, st, sample) ==
  CASE kind = "Limiter" -> Limiter_process(st, sample).st
    [] kind = "TruePeakLimiter" -> TruePeakLimiter_process(st, sample).st
    [] kind = "LosslessTruePeakLimiter" ->
         LosslessTruePeakLimiter_process(st, sample).st

OverCeiling(kind, st, sample) ==
  CASE kind = "Limiter" -> Abs(sample) > LimiterCeiling(st)
    [] kind = "TruePeakLimiter" -> ToDb(OversampledPeak(sample)) > st.ceiling
    [] kind = "LosslessTruePeakLimiter" ->
         ToDb(detectTruePeak(sample, st.lastSample)) > st.ceiling

\* One call: the gain is in (0, 1], below 1 after a sample over the ceiling,
\* and nearer to 1 than before after a sample under it.
GainStep(over, before, after) ==
  /\ after > 0 /\ after <= Scale
  /\ over => after < Scale
  /\ (~over /\ before < Scale) => after > before

RECURSIVE GainRecovers(_, _, _, _)
GainRecovers_next(kind, st, samples, i, next) ==
  /\ GainStep(OverCeiling(kind, st, samples[i]), st.gainReduction,
              next.gainReduction)
  /\ GainRecovers(kind, next, samples, i + 1)

GainRecovers(kind, st, samples, i) ==
  IF i > Len(samples) THEN TRUE
  ELSE GainRecovers_next(kind, st, samples, i,
                         LimiterAfter(kind, st, samples[i]))

\* C23: while the samples of a buffer pass through a limiter of either kind,
\* the gain stays in (0, 1], drops in the call that gets a sample over the
\* ceiling, and rises on every later sample under the ceiling while it is
\* below 1.
C23_LimiterGainRecovers ==
  ~held.isNull =>
    /\ GainRecovers("Limiter", Limiter(95, 500), Fed(held.data, 1), 1)
    /\ GainRecovers("TruePeakLimiter", TruePeakLimiter(Mp3Ceiling, 500),
                    Fed(held.data, 1), 1)
    /\ GainRecovers("LosslessTruePeakLimiter",
                    LosslessTruePeakLimiter(Mp3Ceiling), Fed(held.data, 1), 1)

(***************************************************************************)
(* Properties of the dynamics stages                                       *)
(***************************************************************************)
\* Envelope levels in cdB, from silence to full scale.
Levels == {-6000, -2000, -1500, -1200, -1000, -600, -300, -100, 0}

\* The gain reduction is between 0 dB and the magnitude of the stage's
\* maximum, and the multiplier made of it is at most 1.
NeverAmplifies(st, gainReduction) ==
  /\ gainReduction >= 0 /\ gainReduction <= Abs(st.gain)
  /\ Lin(-gainReduction) <= Scale

\* C24: for every DynamicEQ of the chain a process call ran, as the chain
\* set it from the measurement record, and for every envelope level, the
\* gain reduction lies between 0 dB and the magnitude of the configured
\* maximum, and the multiplier is at most 1.
C24_DynamicEQNeverAmplifies ==
  \A i \in DOMAIN call.stages :
    call.stages[i].k = "DynamicEQ" =>
      \A dbLevel \in Levels \cup {ToDb(call.stages[i].envelope)} :
        NeverAmplifies(call.stages[i],
                       DynamicEQ_gainReduction(call.stages[i], dbLevel))

\* Dynamic ranges above the target of 8 dB, in cdB.
Ranges == {900, 1200, 1600, 2000, 3000}

\* The stages the chain builds before adaptThreshold has moved a threshold:
\* those for a record whose dynamic range is the target.
BaseStages(presetName, analysisData) ==
  OfflineStages(presetName, [analysisData EXCEPT !.dynamicRange = 800])

\* The threshold of a compressor after adaptThreshold with a dynamic range.
AdaptedThreshold(st, dynamicRange) ==
  AdaptiveCompressor_adaptThreshold(st,
    [NullAnalysis EXCEPT !.dynamicRange = dynamicRange]).thr

\* C25: when a process call adapted the chain to a record whose dynamic
\* range is over the 8 dB target, the threshold of its
\* compressor is at most the threshold the chain built it with, and the
\* adapted threshold does not rise as the dynamic range grows.
C25_AdaptationCompressesMore ==
  (call.threw = "no" /\ ~call.analysisData.isNull
     /\ call.analysisData.dynamicRange > 800) =>
    \A i \in DOMAIN call.stages :
      call.stages[i].k = "AdaptiveCompressor" =>
        /\ call.stages[i].thr
             <= BaseStages(call.preset, call.analysisData)[i].thr
        /\ \A a \in Ranges, b \in Ranges :
             a < b => AdaptedThreshold(call.stages[i], b)
                        <= AdaptedThreshold(call.stages[i], a)

\* Envelope levels around the knee of a compressor, in cdB: below it, at its
\* two ends, just under and just over its upper end, and up to full scale.
KneeLevels(st) ==
  { st.thr - st.knee, st.thr - st.knee \div 2, st.thr,
    st.thr + st.knee \div 2 - 1, st.thr + st.knee \div 2,
    st.thr + st.knee \div 2 + 1, st.thr + st.knee, 0 }

\* C30: for the compressor of every chain a process call ran, the gain
\* reduction is at least 0 at every envelope level and a higher level never
\* gets less of it than a lower one, also across the upper end of the knee.
C30_ReductionGrowsWithLevel ==
  \A i \in DOMAIN call.stages :
    call.stages[i].k = "AdaptiveCompressor" =>
      \A a \in KneeLevels(call.stages[i]), b \in KneeLevels(call.stages[i]) :
        /\ AdaptiveCompressor_gainReduction(call.stages[i], a) >= 0
        /\ a <= b => AdaptiveCompressor_gainReduction(call.stages[i], a)
                       <= AdaptiveCompressor_gainReduction(call.stages[i], b)

(***************************************************************************)
(* Properties of the pitch corrector                                       *)
(***************************************************************************)
\* Corrections in hundredths of a cent, from just over a cent to 200 cents.
Corrections == {150, 500, 1000, 2500, 5000, 10000, 20000}

\* processSample has just mixed a shifted sample into its output.
Shifting ==
  pitched.op = "processSample" /\ Abs(corrector.smoothCorrection) > 100

\* C26 as claimed: when applyPitchShift mixes its output, the weight of the
\* original sample is at most the weight any larger correction would give
\* it, and the two weights sum to 1.
C26_OriginalShareGrows ==
  Shifting =>
    \A c \in Corrections :
      /\ MixWeights(c).original + MixWeights(c).shifted = Scale
      /\ Abs(corrector.smoothCorrection) <= c
           => MixWeights(corrector.smoothCorrection).original
                <= MixWeights(c).original

\* C26 as amended: when applyPitchShift mixes its output, the weight of the
\* original sample is between 0.2 and 0.5 and at least the weight any
\* larger correction would give it, and the two weights sum to 1.
C26_OriginalShareFalls ==
  Shifting =>
    \A c \in Corrections \cup {Abs(corrector.smoothCorrection)} :
      /\ MixWeights(c).original + MixWeights(c).shifted = Scale
      /\ MixWeights(c).original >= 2000 /\ MixWeights(c).original <= 5000
      /\ Abs(corrector.smoothCorrection) <= c
           => MixWeights(corrector.smoothCorrection).original
                >= MixWeights(c).original

\* A call mixed its output with less than half of the original sample.
C26_Witness ==
  Shifting /\ MixWeights(corrector.smoothCorrection).original < 5000

\* A corrector as the constructor made this one.
Fresh(st) == AdvancedPitchCorrector(st.thr, st.retuneSpeed)

\* Two results of processSample agree: the same output, and the same state
\* once both have made their delay line.
SameResult(a, b) ==
  a.out = b.out /\ WithDelayLine(a.st) = WithDelayLine(b.st)

\* C27: after reset() the ring and its index, the deviation history, the
\* smoothed deviation, the correction and the delay line with its positions
\* are those of a new corrector, and every next call returns what a new
\* corrector returns; and the BigCappo chain starts every run with a
\* corrector in that state.
C27_ResetIsFresh ==
  /\ pitched.op = "reset" =>
       /\ WithDelayLine(corrector) = WithDelayLine(Fresh(corrector))
       /\ \A sample \in SampleValues, pitchInfo \in PitchInfos :
            SameResult(processSample(corrector, sample, pitchInfo),
                       processSample(Fresh(corrector), sample, pitchInfo))
  /\ \A a \in MeasurementRecords :
       OfflineStages("BigCappo", a)[1] = AdvancedPitchCorrector(25, 2)

\* A reset of a corrector that had shifted samples through its delay line.
C27_Witness ==
  pitched.op = "reset" /\ corrector.delayLine /\ fed > 1


(***************************************************************************)
(* Properties of the writer's integers                                     *)
(***************************************************************************)
\* Every sample of the buffer, with every dither and last error, comes back
\* from the file as the integer the branch computed.
NeverWrapped(bitDepth, ditherProcessor, audioBuffer) ==
  \A ch \in 1 .. audioBuffer.numberOfChannels, i \in 1 .. audioBuffer.length :
    \A dither \in Dithers, lastError \in LastErrors :
      stored(bitDepth, intSample(bitDepth, ditherProcessor,
                                 audioBuffer.data[ch][i], dither, lastError))
        = intSample(bitDepth, ditherProcessor, audioBuffer.data[ch][i],
                    dither, lastError)

\* C29: for every sample of the working buffer of a 16 or 24-bit exportToWAV
\* and every dither and noise-shaping value, the integer the writer computes
\* lies in the signed range of that width, so it is read back from the file
\* unchanged and never with the opposite sign.
C29_WrittenIntegersInRange ==
  (exported.op = "exportToWAV" /\ exported.options.bitDepth \in {16, 24}) =>
    NeverWrapped(exported.options.bitDepth,
                 DitherProcessor(exported.options.bitDepth,
                                 exported.options.dither),
                 exported.workingBuffer)

=============================================================================
